---- MODULE Spec2Model ----
(***************************************************************************)
(* Model of the RWA implementation server: the fee estimator               *)
(* (getGasOverrides and the legacy gas-price path), the identity           *)
(* provisioning flow (createIdentity / configureAndTransferIdentity), the  *)
(* claim issuer and the claim submitter with its pre-flight check, the     *)
(* registry client and the token mint.                                     *)
(*                                                                         *)
(* Every request is one asynchronous task; every await of the source is a  *)
(* step of that task.  Replies of the chain (fee data, receipts, view call *)
(* results, failures) are inputs drawn from small sets.                    *)
(***************************************************************************)
EXTENDS Integers, Sequences, FiniteSets, TLC

\* --------------------------------------------------------------------------
\* Bounds of the model
\* --------------------------------------------------------------------------

\* fee amounts are taken up to this many wei around 0, the floor and above it
MaxFeeDelta == 2

\* --------------------------------------------------------------------------
\* Arbitrary-precision integers (JS bigint / ethers BigNumber).
\* A value is hi * Limb + lo with 0 <= lo < Limb, hi carrying the sign, so
\* that wei amounts beyond 2^31 are computed exactly.
\* --------------------------------------------------------------------------

Limb == 1000000

Big(h, l) == [hi |-> h, lo |-> l]

BigNorm(h, l) == [hi |-> h + (l \div Limb), lo |-> l % Limb]

BigAdd(a, b) == BigNorm(a.hi + b.hi, a.lo + b.lo)

BigSub(a, b) == BigNorm(a.hi - b.hi, a.lo - b.lo)

BigMul(a, k) == BigNorm(a.hi * k, a.lo * k)

\* bigint division truncates; the dividends of the source are non-negative
BigDiv(a, k) == [hi |-> a.hi \div k, lo |-> ((a.hi % k) * Limb + a.lo) \div k]

BigLt(a, b) == a.hi < b.hi \/ (a.hi = b.hi /\ a.lo < b.lo)

BigIsZero(a) == a.hi = 0 /\ a.lo = 0

\* ethers.parseUnits(n, "gwei") = n * 10^9 wei
ParseUnitsGwei(n) == Big(n * 1000, 0)

\* --------------------------------------------------------------------------
\* Fee estimator
\* --------------------------------------------------------------------------

\* a field of FeeData: a bigint, or null when the provider cannot supply it
FeeNull == [present |-> FALSE, v |-> Big(0, 0)]

FeeOf(b) == [present |-> TRUE, v |-> b]

\* JS truthiness of a FeeData field: null and 0n are both falsy
Truthy(f) == f.present /\ ~BigIsZero(f.v)

amoyMinPriorityFee == ParseUnitsGwei(32)

NoQuote == [maxFeePerGas |-> Big(0, 0), maxPriorityFeePerGas |-> Big(0, 0)]

FeeError == "Failed to fetch complete fee data from the provider."

\* priorityFee after the floor has been applied
FlooredPriorityFee(p) == IF BigLt(p, amoyMinPriorityFee) THEN amoyMinPriorityFee ELSE p

\* getGasOverrides with the buffer applied as (priorityFee / 100) * 110: the
\* division first, which drops the last two digits of the fee
GetGasOverridesLossy(feeData) ==
    IF ~Truthy(feeData.maxFeePerGas) \/ ~Truthy(feeData.maxPriorityFeePerGas)
    THEN [err |-> FeeError, q |-> NoQuote]
    ELSE LET priorityFee         == FlooredPriorityFee(feeData.maxPriorityFeePerGas.v)
             bufferedPriorityFee == BigMul(BigDiv(priorityFee, 100), 110)
             estimatedBaseFee    == BigSub(feeData.maxFeePerGas.v, feeData.maxPriorityFeePerGas.v)
             newMaxFeePerGas     == BigAdd(estimatedBaseFee, bufferedPriorityFee)
         IN  [err |-> "",
              q   |-> [maxFeePerGas |-> newMaxFeePerGas,
                       maxPriorityFeePerGas |-> bufferedPriorityFee]]

\* getGasOverrides adding the buffered tip to the provider's max fee itself
\* instead of to the estimated base fee
GetGasOverridesNoBase(feeData) ==
    IF ~Truthy(feeData.maxFeePerGas) \/ ~Truthy(feeData.maxPriorityFeePerGas)
    THEN [err |-> FeeError, q |-> NoQuote]
    ELSE LET priorityFee         == FlooredPriorityFee(feeData.maxPriorityFeePerGas.v)
             bufferedPriorityFee == BigDiv(BigMul(priorityFee, 110), 100)
             newMaxFeePerGas     == BigAdd(feeData.maxFeePerGas.v, bufferedPriorityFee)
         IN  [err |-> "",
              q   |-> [maxFeePerGas |-> newMaxFeePerGas,
                       maxPriorityFeePerGas |-> bufferedPriorityFee]]

\* getGasOverrides falling back to the floor and a zero base fee when the
\* provider supplies no fee data, instead of throwing
GetGasOverridesDefaulting(feeData) ==
    LET reported            == IF Truthy(feeData.maxPriorityFeePerGas)
                               THEN feeData.maxPriorityFeePerGas.v ELSE amoyMinPriorityFee
        maxFee              == IF Truthy(feeData.maxFeePerGas)
                               THEN feeData.maxFeePerGas.v ELSE reported
        priorityFee         == FlooredPriorityFee(reported)
        bufferedPriorityFee == BigDiv(BigMul(priorityFee, 110), 100)
        estimatedBaseFee    == BigSub(maxFee, reported)
    IN  [err |-> "",
         q   |-> [maxFeePerGas |-> BigAdd(estimatedBaseFee, bufferedPriorityFee),
                  maxPriorityFeePerGas |-> bufferedPriorityFee]]

\* getGasOverrides quoting the estimated base fee alone as the max fee, the
\* buffered tip left out of the sum
GetGasOverridesBaseOnly(feeData) ==
    IF ~Truthy(feeData.maxFeePerGas) \/ ~Truthy(feeData.maxPriorityFeePerGas)
    THEN [err |-> FeeError, q |-> NoQuote]
    ELSE LET priorityFee         == FlooredPriorityFee(feeData.maxPriorityFeePerGas.v)
             bufferedPriorityFee == BigDiv(BigMul(priorityFee, 110), 100)
             estimatedBaseFee    == BigSub(feeData.maxFeePerGas.v, feeData.maxPriorityFeePerGas.v)
         IN  [err |-> "",
              q   |-> [maxFeePerGas |-> estimatedBaseFee,
                       maxPriorityFeePerGas |-> bufferedPriorityFee]]

\* the result of getGasOverrides for one reply of provider.getFeeData():
\* err = "" and the overrides object, or the message of the error thrown
GetGasOverrides(feeData) ==
    IF ~Truthy(feeData.maxFeePerGas) \/ ~Truthy(feeData.maxPriorityFeePerGas)
    THEN [err |-> FeeError, q |-> NoQuote]
    ELSE LET priorityFee         == FlooredPriorityFee(feeData.maxPriorityFeePerGas.v)
             bufferedPriorityFee == BigDiv(BigMul(priorityFee, 110), 100)
             estimatedBaseFee    == BigSub(feeData.maxFeePerGas.v, feeData.maxPriorityFeePerGas.v)
             newMaxFeePerGas     == BigAdd(estimatedBaseFee, bufferedPriorityFee)
         IN  [err |-> "",
              q   |-> [maxFeePerGas |-> newMaxFeePerGas,
                       maxPriorityFeePerGas |-> bufferedPriorityFee]]

\* the overrides of the legacy path: provider.getGasPrice() with a 50% buffer,
\* used for both fields
LegacyOverrides(gasPrice) ==
    LET bufferedGasPrice == BigDiv(BigMul(gasPrice, 150), 100)
    IN  [maxFeePerGas |-> bufferedGasPrice, maxPriorityFeePerGas |-> bufferedGasPrice]

\* the amounts a provider may report: around zero, just below the floor, at and
\* above the floor, and well above it
FeeAmounts ==
    {Big(0, d) : d \in 0..MaxFeeDelta}
        \cup {Big(31999, Limb - d) : d \in 1..MaxFeeDelta}
        \cup {Big(32000, d) : d \in 0..MaxFeeDelta}
        \cup {Big(75000, 7 * d) : d \in 0..MaxFeeDelta}

FeeFields == {FeeNull} \cup {FeeOf(b) : b \in FeeAmounts}

FeeSnapshots == [maxFeePerGas : FeeFields, maxPriorityFeePerGas : FeeFields]

\* --------------------------------------------------------------------------
\* Addresses, keys and the claim hash
\* --------------------------------------------------------------------------

\* user wallets and the identity contracts the factory deploys
Users == {"0xU1", "0xU2"}

Identities == {"0xI1", "0xI2"}

ID_FACTORY == "0x3999"

IDENTITY_REGISTRY == "0xAa7b"

CLAIM_ISSUER_ADDRESS == "0xd758"

\* the operator address hard-coded as the management key of a new identity
ADMIN_ADDRESS == "0x0af7"

TOKEN_ADDRESS == "0x3eaC"

\* the token contracts an /invest request may name: the one above and another
OTHER_TOKEN == "0xT2"

Tokens == {TOKEN_ADDRESS, OTHER_TOKEN}

\* a string a request may carry where an address is expected
MALFORMED_ADDRESS == "0xZZ"

\* the address a mapping of a contract holds for a key it has no entry for
ZERO_ADDRESS == "0x0000"

\* ethers.isAddress; AbiCoder.encode rejects the same strings for an "address"
IsAddressLax(a) == a # ""

IsAddress(a) == a \in Users \cup Identities

\* what ecrecover yields when the digest is not the one that was signed:
\* an address unrelated to every key of the model
UnrelatedAddress == "0x????"

\* private keys ADMIN_PRIVATE_KEY may hold, and the address each derives
IssuerKeys == {"kAdmin", "kIssuer"}

AddressOf(key) ==
    CASE key = "kAdmin"  -> ADMIN_ADDRESS
      [] key = "kIssuer" -> CLAIM_ISSUER_ADDRESS
      [] key = "kU1"     -> "0xU1"
      [] key = "kU2"     -> "0xU2"
      [] OTHER           -> UnrelatedAddress

Zeros(n) == [i \in 1..n |-> 0]

\* the 20 bytes of an address (one distinct byte value per address, repeated)
AddressBytes(a) ==
    LET code == CASE a = "0xI1" -> 17
                  [] a = "0xI2" -> 18
                  [] a = "0xU1" -> 33
                  [] a = "0xU2" -> 34
                  [] OTHER      -> 255
    IN  [i \in 1..20 |-> code]

\* a uint256 as 32 big-endian bytes (values below 2^16)
Uint256Bytes(n) == Zeros(30) \o <<n \div 256, n % 256>>

RightPad32(b) == b \o Zeros((32 - (Len(b) % 32)) % 32)

\* AbiCoder.encode(["address","uint256","bytes"], [a, topic, data]): the head
\* (padded address, topic, offset of the tail) and the tail (length, padded data)
AbiEncode(a, topic, data) ==
    Zeros(12) \o AddressBytes(a) \o Uint256Bytes(topic) \o Uint256Bytes(96)
        \o Uint256Bytes(Len(data)) \o RightPad32(data)

\* solidityPacked(["address","uint256","bytes"], [a, topic, data]): no padding
\* of the address, no offset, no length
SolidityPacked(a, topic, data) == AddressBytes(a) \o Uint256Bytes(topic) \o data

\* keccak256, collision free: a digest is identified with its preimage
Keccak256(bytes) == [prefixed |-> FALSE, pre |-> bytes]

\* hashMessage(getBytes(digest)) =
\* keccak256("\x19Ethereum Signed Message:\n32" ++ digest)
HashMessage(digest) == [prefixed |-> TRUE, pre |-> digest.pre]

\* toUtf8Bytes of a string given by its code points (below 2048)
RECURSIVE ToUtf8Bytes(_)
ToUtf8Bytes(str) ==
    IF str = <<>> THEN <<>>
    ELSE LET c == Head(str)
         IN  (IF c < 128 THEN <<c>> ELSE <<192 + (c \div 64), 128 + (c % 64)>>)
                 \o ToUtf8Bytes(Tail(str))

\* hexlify: two hex digits per byte (the "0x" prefix is left implicit)
Hexlify(bytes) ==
    [i \in 1..(2 * Len(bytes)) |->
        IF i % 2 = 1 THEN bytes[(i + 1) \div 2] \div 16 ELSE bytes[i \div 2] % 16]

\* the bytes a hex string stands for when passed as a "bytes" argument
GetBytes(hex) == [i \in 1..(Len(hex) \div 2) |-> hex[2 * i - 1] * 16 + hex[2 * i]]

\* signingKey.sign(digest): the components of an ECDSA signature; r stands for
\* what determines recovery (the key and the digest signed)
SigningKeySign(key, digest) == [r |-> [by |-> key, over |-> digest], s |-> "s", v |-> 27]

\* Signature.from({r, s, v}).serialized / joinSignature: r ++ s ++ v
Serialized(sig) == <<sig.r, sig.s, sig.v>>

\* wallet.signMessage(bytes32): EIP-191 prefix, sign, serialize
SignMessage(key, digest) == Serialized(SigningKeySign(key, HashMessage(digest)))

\* ecrecover over a digest: the signer when the digest is the one signed
Recover(signature, digest) ==
    IF signature[1].over = digest THEN AddressOf(signature[1].by) ELSE UnrelatedAddress

\* Identity.getRecoveredAddress(sig, dataHash): recovery over the hash as given
GetRecoveredAddress(signature, dataHash) == Recover(signature, dataHash)

KYC == <<75, 89, 67>>

\* issueKycClaimSignature (handleKyc.js): the issuer field is the constant
IssueKycClaimSignature(key, onchainIDAddress, claimData, topic) ==
    LET claimDataBytes == ToUtf8Bytes(claimData)
        dataHash       == Keccak256(AbiEncode(onchainIDAddress, topic, claimDataBytes))
        ethHash        == HashMessage(dataHash)
        signature      == SigningKeySign(key, ethHash)
    IN  [signature |-> signature, issuerAddress |-> CLAIM_ISSUER_ADDRESS,
         dataHash |-> dataHash, topic |-> topic]

\* generateClaimSignature (handleKyc.js): the wrapper behind POST /signature
GenerateClaimSignature(key, identityAddress, topic) ==
    LET claimData == KYC
        result    == IssueKycClaimSignature(key, identityAddress, claimData, topic)
    IN  [topic |-> result.topic, scheme |-> 1, issuer |-> result.issuerAddress,
         signature |-> Serialized(result.signature),
         data |-> Hexlify(ToUtf8Bytes(claimData)), uri |-> ""]

\* generateClaimSignature (handleKycV6.js)
GenerateClaimSignatureV6(key, identityAddress, topic, claimDataString) ==
    LET claimDataBytes == ToUtf8Bytes(claimDataString)
        dataHash       == Keccak256(AbiEncode(identityAddress, topic, claimDataBytes))
    IN  [topic |-> topic, scheme |-> 1, issuer |-> AddressOf(key),
         signature |-> SignMessage(key, dataHash),
         data |-> Hexlify(claimDataBytes), uri |-> ""]

\* the hash the pre-flight check of submitClaim (handleKycV6.js) recomputes
PreflightDataHash(identityAddress, claimDetails) ==
    Keccak256(SolidityPacked(identityAddress, claimDetails.topic, GetBytes(claimDetails.data)))

\* the address the pre-flight check compares with claimDetails.issuer
PreflightRecovered(identityAddress, claimDetails) ==
    GetRecoveredAddress(claimDetails.signature, PreflightDataHash(identityAddress, claimDetails))

\* the standalone validator (sigVerify.js): signs the packed hash itself, with
\* no message prefix, and names the signing wallet as issuer
SignRawClaim(key, identityAddress, topic, data) ==
    LET rawDataHash == Keccak256(SolidityPacked(identityAddress, topic, GetBytes(data)))
    IN  [topic |-> topic, scheme |-> 1, issuer |-> AddressOf(key),
         signature |-> Serialized(SigningKeySign(key, rawDataHash)),
         data |-> data, uri |-> ""]

\* --------------------------------------------------------------------------
\* Receipts and event logs
\* --------------------------------------------------------------------------

\* events of the IIdFactory ABI and of the IdentityRegistry ABI; "Transfer"
\* below stands for a log of some other contract, which neither interface decodes
FACTORY_EVENTS == {"WalletLinked", "Deployed"}

REGISTRY_EVENTS == {"IdentityRegistered", "CountryUpdated"}

LogValues == [event : {"WalletLinked", "Deployed", "Transfer"}, identity : Identities]

\* at most this many logs in a receipt
MaxLogs == 2

LogLists == UNION {[1..n -> LogValues] : n \in 0..MaxLogs}

\* Interface.parseLog: the decoded event, or null/throw when the interface has
\* no event for the log's topic
ParseLog(iface, log) == [decoded |-> log.event \in iface, name |-> log.event, args |-> log]

\* the index of the first log that decodes to WalletLinked, or 0
FirstWalletLinked(iface, logs) ==
    LET hits == {i \in 1..Len(logs) :
                    ParseLog(iface, logs[i]).decoded /\ ParseLog(iface, logs[i]).name = "WalletLinked"}
    IN  IF hits = {} THEN 0 ELSE CHOOSE i \in hits : \A j \in hits : i <= j

\* the scan taking the first log the factory interface decodes, whatever its name
ExtractIdentityAddressAnyEvent(logs) ==
    LET hits == {i \in 1..Len(logs) : ParseLog(FACTORY_EVENTS, logs[i]).decoded}
    IN  IF hits = {} THEN ""
        ELSE ParseLog(FACTORY_EVENTS, logs[CHOOSE i \in hits : \A j \in hits : i <= j]).args.identity

\* createIdentity (handleKyc.js): the loop over receipt.logs with the factory
\* interface; "" stands for identityAddress left undefined
ExtractIdentityAddress(logs) ==
    LET i == FirstWalletLinked(FACTORY_EVENTS, logs)
    IN  IF i = 0 THEN "" ELSE ParseLog(FACTORY_EVENTS, logs[i]).args.identity

\* createIdentity (handleKycV6.js): receipt.logs.find with the interface of the
\* IdentityRegistry ABI
ExtractIdentityAddressV6(logs) ==
    LET i == FirstWalletLinked(REGISTRY_EVENTS, logs)
    IN  IF i = 0 THEN "" ELSE ParseLog(REGISTRY_EVENTS, logs[i]).args.identity

EventNotFound == "Could not find the WalletLinked event in the transaction receipt."

\* --------------------------------------------------------------------------
\* Requests: one asynchronous task per call
\* --------------------------------------------------------------------------

\* tasks that may be running
NumTasks == 2

Tasks == 1..NumTasks

KEY_PURPOSE_MANAGEMENT == 1

KEY_PURPOSE_CLAIM == 3

ADD_CLAIM_GAS_LIMIT == 500000

UserKeys == {"kU1", "kU2"}

\* the replies of provider.getFeeData() the flows are run against: a field
\* missing, a priority fee below the floor, a priority fee above it
FlowSnapshots ==
    {[maxFeePerGas |-> FeeNull, maxPriorityFeePerGas |-> FeeOf(Big(32000, 0))],
     [maxFeePerGas |-> FeeOf(Big(75000, 0)), maxPriorityFeePerGas |-> FeeOf(Big(0, 1))],
     [maxFeePerGas |-> FeeOf(Big(75000, 0)), maxPriorityFeePerGas |-> FeeOf(Big(32000, 1))]}

NoSignature == <<[by |-> "", over |-> Keccak256(<<>>)], "", 0>>

NoClaim == [topic |-> 0, scheme |-> 0, issuer |-> "", signature |-> NoSignature,
            data |-> <<>>, uri |-> ""]

\* a claim whose payload was altered after signing (one byte appended)
Tamper(claim) == [claim EXCEPT !.data = claim.data \o <<0, 1>>]

\* the claims submitClaim is called with: issued by either generator or by the
\* standalone validator, for either identity, unaltered or tampered with
IssuedClaims ==
    UNION {{GenerateClaimSignature(k, i, 42),
            GenerateClaimSignatureV6(k, i, 42, KYC),
            SignRawClaim(k, i, 42, Hexlify(KYC))} : k \in IssuerKeys, i \in Identities}

ClaimInputs == IssuedClaims \cup {Tamper(c) : c \in IssuedClaims}

NoRequest == [op |-> "none", impl |-> "", route |-> "", userAddress |-> "",
              identityAddress |-> "", countryCode |-> 0, userWallet |-> "",
              tokenAddress |-> "",
              claimDetails |-> NoClaim]

NoGas == [q |-> NoQuote, read |-> 0, gasLimit |-> 0]

NoReceipt == [arrived |-> FALSE, logs |-> <<>>, status |-> 0]

NoPreflight == [ran |-> FALSE, ok |-> FALSE, recovered |-> ""]

Running == [status |-> "running", value |-> ""]

\* country codes a registration request carries
CountryCodes == {91, 840}

\* the hash of the transaction a task has sent (one transaction at a time)
TxHash == "tx.hash"

\* receipt.status of a receipt tx.wait() resolved with: 1, or another value
ReceiptStatuses == {1, 0}

\* writes to the contracts' maps followed in a run of the reads
MaxWrites == 2

\* what the reads see of the chain: the wallet -> identity map of the factory
\* (getIdentity), the registry's verdict per wallet (isVerified), and the
\* number of transactions that have changed either since the start; and the
\* identity proxies deployed by the legacy path, by the user each was deployed
\* for, in the order of their confirmation
NoChain == [linked |-> [u \in Users |-> ZERO_ADDRESS],
            verified |-> [u \in Users |-> FALSE], writes |-> 0, proxies |-> <<>>]

Chains == [linked : [Users -> Identities \cup {ZERO_ADDRESS}],
           verified : [Users -> BOOLEAN], writes : {0}, proxies : {<<>>}]

VARIABLES feeData, feeResult, gasPrice, legacyResult,
          claimIn, claimOut, claimRecovered,
          env, pc, req, gasOverrides, receipt, identityAddress, preflight, outcome, hist,
          chain

feeVars == <<feeData, feeResult, gasPrice, legacyResult>>

claimVars == <<claimIn, claimOut, claimRecovered>>

\* the variables of the fee estimator and of the claim round trip on their own
pureVars == <<feeData, feeResult, gasPrice, legacyResult, claimIn, claimOut, claimRecovered>>

taskVars == <<env, pc, req, gasOverrides, receipt, identityAddress, preflight, outcome, hist>>

vars == <<feeData, feeResult, gasPrice, legacyResult,
          claimIn, claimOut, claimRecovered,
          env, pc, req, gasOverrides, receipt, identityAddress, preflight, outcome, hist,
          chain>>

Pending == [err |-> "pending", q |-> NoQuote]

\* ---- history of a task (kept to state the ordering properties) ----

\* keccak256(abi.encode(["address"], [a])): the key hash of an address
KeyHash(a) == [keyOf |-> a]

Event(ev, kind, to, key, purpose, read, gasLimit, signer) ==
    [ev |-> ev, kind |-> kind, to |-> to, key |-> key, purpose |-> purpose,
     read |-> read, gasLimit |-> gasLimit, signer |-> signer, err |-> "", args |-> <<>>]

\* the n-th reply of provider.getFeeData() to the task; kind tells whether it
\* carried both a max fee and a priority fee
ReadEvent(n, fd) ==
    Event("read", IF fd.maxFeePerGas.present /\ fd.maxPriorityFeePerGas.present
                  THEN "complete" ELSE "incomplete",
          "", KeyHash(""), 0, n, 0, "")

\* tx.wait() resolved with the receipt of the transaction
ConfirmEvent(kind, purpose) == Event("confirm", kind, "", KeyHash(""), purpose, 0, 0, "")

\* the sending of a transaction, or the wait for it, rejected with msg
FailEvent(kind, purpose, msg) ==
    [Event("fail", kind, "", KeyHash(""), purpose, 0, 0, "") EXCEPT !.err = msg]

\* number of fee-data reads the task has made
Reads(h) == Cardinality({i \in 1..Len(h) : h[i].ev = "read"})

Submits(h) == SelectSeq(h, LAMBDA e : e.ev = "submit")

Confirms(h) == SelectSeq(h, LAMBDA e : e.ev = "confirm")

\* ---- the environment ----

\* checkEnvVariables
EnvMissing == env.ADMIN_PRIVATE_KEY = "" \/ env.RPC_URL = ""

EnvError == "Missing required environment variables (ADMIN_PRIVATE_KEY or RPC_URL)."

adminWallet == AddressOf(env.ADMIN_PRIVATE_KEY)

\* ---- how a task ends or goes on ----

Throw(t, msg) ==
    /\ pc' = [pc EXCEPT ![t] = "done"]
    /\ outcome' = [outcome EXCEPT ![t] = [status |-> "threw", value |-> msg]]

Return(t, v) ==
    /\ pc' = [pc EXCEPT ![t] = "done"]
    /\ outcome' = [outcome EXCEPT ![t] = [status |-> "returned", value |-> v]]

\* a route handler answers 400 without calling the operation
Reject(t, msg) ==
    /\ pc' = [pc EXCEPT ![t] = "done"]
    /\ outcome' = [outcome EXCEPT ![t] = [status |-> "rejected", value |-> msg]]

Goto(t, label) ==
    /\ pc' = [pc EXCEPT ![t] = label]
    /\ UNCHANGED outcome

\* the reply of provider.getFeeData() inside getGasOverrides, at label from:
\* the call rejects, getGasOverrides throws, or the task holds the overrides
\* and goes on to send its transaction at label to
AwaitGasOverrides(t, from, to, limit) ==
    /\ pc[t] = from
    /\ \/ /\ Throw(t, "could not detect network")
          /\ UNCHANGED <<gasOverrides, hist>>
       \/ \E fd \in FlowSnapshots :
            LET r == GetGasOverrides(fd)
                n == Reads(hist[t]) + 1
            IN  /\ hist' = [hist EXCEPT ![t] = Append(@, ReadEvent(n, fd))]
                /\ IF r.err # ""
                   THEN Throw(t, r.err) /\ UNCHANGED gasOverrides
                   ELSE /\ gasOverrides' = [gasOverrides EXCEPT
                                               ![t] = [q |-> r.q, read |-> n, gasLimit |-> limit]]
                        /\ Goto(t, to)

SendFailed == "transaction rejected"

TxFailed == "transaction execution reverted"

\* the reply to a contract method call that sends a transaction, at label
\* from: the node takes the transaction (it is outstanding from now on) or
\* the call rejects
AwaitSend(t, from, to, tx) ==
    /\ pc[t] = from
    /\ \/ /\ hist' = [hist EXCEPT ![t] = Append(@, tx)]
          /\ Goto(t, to)
       \/ /\ Throw(t, SendFailed)
          /\ hist' = [hist EXCEPT ![t] = Append(@, FailEvent(tx.kind, tx.purpose, SendFailed))]

\* tx.wait() rejected at label from (the transaction reverted)
WaitRejects(t, kind, purpose) ==
    /\ Throw(t, TxFailed)
    /\ hist' = [hist EXCEPT ![t] = Append(@, FailEvent(kind, purpose, TxFailed))]

\* --------------------------------------------------------------------------
\* createIdentity and configureAndTransferIdentity
\* --------------------------------------------------------------------------

\* createIdentity(userAddress, salt) is called: checkEnvVariables, then the
\* task waits for the fee data of the creation transaction
CreateIdentityEnter(t, route, impl, userAddress) ==
    /\ req' = [req EXCEPT ![t] = [NoRequest EXCEPT !.op = "createIdentity", !.route = route,
                                                    !.impl = impl, !.userAddress = userAddress]]
    /\ IF EnvMissing THEN Throw(t, EnvError) ELSE Goto(t, "ci_getFeeData")

CreateIdentityCall(t) ==
    /\ pc[t] = "idle"
    /\ \E u \in Users, i \in {"kyc", "v6"} : CreateIdentityEnter(t, "", i, u)
    /\ UNCHANGED <<env, gasOverrides, receipt, identityAddress, preflight, hist>>
    /\ UNCHANGED pureVars
    /\ UNCHANGED chain

\* const gasOverrides = await getGasOverrides(provider)
CreateIdentityGas(t) ==
    /\ AwaitGasOverrides(t, "ci_getFeeData", "ci_sendTx", 0)
    /\ UNCHANGED <<env, req, receipt, identityAddress, preflight>>
    /\ UNCHANGED pureVars
    /\ UNCHANGED chain

\* const tx = await idFactory.createIdentityWithManagementKeys(userAddress,
\*     salt, [managementKey], gasOverrides)
CreateIdentitySend(t) ==
    /\ AwaitSend(t, "ci_sendTx", "ci_wait",
                 Event("submit", "createIdentityWithManagementKeys", ID_FACTORY,
                       KeyHash(ADMIN_ADDRESS), KEY_PURPOSE_MANAGEMENT,
                       gasOverrides[t].read, gasOverrides[t].gasLimit, adminWallet))
    /\ UNCHANGED <<env, req, gasOverrides, receipt, identityAddress, preflight>>
    /\ UNCHANGED pureVars
    /\ UNCHANGED chain

\* createIdentity keeping identityAddress in a variable of the module instead
\* of a local one: the address found by one call is seen by every call in flight
CreateIdentityReceiptShared(t) ==
    /\ pc[t] = "ci_wait"
    /\ \/ /\ WaitRejects(t, "createIdentityWithManagementKeys", KEY_PURPOSE_MANAGEMENT)
          /\ UNCHANGED <<receipt, identityAddress>>
       \/ \E logs \in LogLists :
            LET found == IF req[t].impl = "v6" THEN ExtractIdentityAddressV6(logs)
                                               ELSE ExtractIdentityAddress(logs)
            IN  /\ hist' = [hist EXCEPT ![t] =
                              Append(@, ConfirmEvent("createIdentityWithManagementKeys",
                                                     KEY_PURPOSE_MANAGEMENT))]
                /\ receipt' = [receipt EXCEPT ![t] = [arrived |-> TRUE, logs |-> logs, status |-> 1]]
                /\ identityAddress' = [u \in Tasks |-> IF u = t \/ identityAddress[u] # ""
                                                        THEN found ELSE ""]
                /\ IF found = "" THEN Throw(t, EventNotFound)
                                 ELSE Goto(t, "cf_getFeeData1")
    /\ UNCHANGED <<env, req, gasOverrides, preflight>>
    /\ UNCHANGED pureVars
    /\ UNCHANGED chain

\* const receipt = await tx.wait(): the wait rejects, or the receipt arrives,
\* its logs are scanned for WalletLinked and, when an identity address was
\* found, configureAndTransferIdentity is entered up to its first await
CreateIdentityReceipt(t) ==
    /\ pc[t] = "ci_wait"
    /\ \/ /\ WaitRejects(t, "createIdentityWithManagementKeys", KEY_PURPOSE_MANAGEMENT)
          /\ UNCHANGED <<receipt, identityAddress>>
       \/ \E logs \in LogLists :
            LET found == IF req[t].impl = "v6" THEN ExtractIdentityAddressV6(logs)
                                               ELSE ExtractIdentityAddress(logs)
            IN  /\ hist' = [hist EXCEPT ![t] =
                              Append(@, ConfirmEvent("createIdentityWithManagementKeys",
                                                     KEY_PURPOSE_MANAGEMENT))]
                /\ receipt' = [receipt EXCEPT ![t] = [arrived |-> TRUE, logs |-> logs, status |-> 1]]
                /\ identityAddress' = [identityAddress EXCEPT ![t] = found]
                /\ IF found = "" THEN Throw(t, EventNotFound)
                                 ELSE Goto(t, "cf_getFeeData1")
    /\ UNCHANGED <<env, req, gasOverrides, preflight>>
    /\ UNCHANGED pureVars
    /\ UNCHANGED chain

\* let gasOverrides = await getGasOverrides(provider)
ConfigureGas1(t) ==
    /\ AwaitGasOverrides(t, "cf_getFeeData1", "cf_sendTx1", 0)
    /\ UNCHANGED <<env, req, receipt, identityAddress, preflight>>
    /\ UNCHANGED pureVars
    /\ UNCHANGED chain

\* the addKey transaction granting the purpose to the admin's key instead of
\* the user's
AddKeyTxForAdmin(t, purpose) ==
    Event("submit", "addKey", identityAddress[t], KeyHash(ADMIN_ADDRESS), purpose,
          gasOverrides[t].read, gasOverrides[t].gasLimit, adminWallet)

\* the addKey transaction of the step the task is at
AddKeyTx(t, purpose) ==
    Event("submit", "addKey", identityAddress[t], KeyHash(req[t].userAddress), purpose,
          gasOverrides[t].read, gasOverrides[t].gasLimit, adminWallet)

\* the first addKey sent and not waited for: the task goes straight on to the
\* fee data of the second
ConfigureSend1NoWait(t) ==
    /\ AwaitSend(t, "cf_sendTx1", "cf_getFeeData2", AddKeyTx(t, KEY_PURPOSE_MANAGEMENT))
    /\ UNCHANGED <<env, req, gasOverrides, receipt, identityAddress, preflight>>
    /\ UNCHANGED pureVars
    /\ UNCHANGED chain

\* const tx1 = await identityProxy.addKey(userKey, KEY_PURPOSE_MANAGEMENT, ...)
ConfigureSend1(t) ==
    /\ AwaitSend(t, "cf_sendTx1", "cf_wait1", AddKeyTx(t, KEY_PURPOSE_MANAGEMENT))
    /\ UNCHANGED <<env, req, gasOverrides, receipt, identityAddress, preflight>>
    /\ UNCHANGED pureVars
    /\ UNCHANGED chain

\* the wait for the first addKey with its failure caught and logged only: the
\* task goes on to the second addKey either way
ConfigureWait1Swallow(t) ==
    /\ pc[t] = "cf_wait1"
    /\ \/ hist' = [hist EXCEPT ![t] = Append(@, FailEvent("addKey", KEY_PURPOSE_MANAGEMENT, TxFailed))]
       \/ hist' = [hist EXCEPT ![t] = Append(@, ConfirmEvent("addKey", KEY_PURPOSE_MANAGEMENT))]
    /\ Goto(t, "cf_getFeeData2")
    /\ UNCHANGED <<env, req, gasOverrides, receipt, identityAddress, preflight>>
    /\ UNCHANGED pureVars
    /\ UNCHANGED chain

\* await tx1.wait(), then the fee data of the second addKey is awaited
ConfigureWait1(t) ==
    /\ pc[t] = "cf_wait1"
    /\ \/ WaitRejects(t, "addKey", KEY_PURPOSE_MANAGEMENT)
       \/ /\ hist' = [hist EXCEPT ![t] = Append(@, ConfirmEvent("addKey", KEY_PURPOSE_MANAGEMENT))]
          /\ Goto(t, "cf_getFeeData2")
    /\ UNCHANGED <<env, req, gasOverrides, receipt, identityAddress, preflight>>
    /\ UNCHANGED pureVars
    /\ UNCHANGED chain

\* gasOverrides = await getGasOverrides(provider)
ConfigureGas2(t) ==
    /\ AwaitGasOverrides(t, "cf_getFeeData2", "cf_sendTx2", 0)
    /\ UNCHANGED <<env, req, receipt, identityAddress, preflight>>
    /\ UNCHANGED pureVars
    /\ UNCHANGED chain

\* const tx2 = await identityProxy.addKey(userKey, KEY_PURPOSE_CLAIM, ...)
ConfigureSend2(t) ==
    /\ AwaitSend(t, "cf_sendTx2", "cf_wait2", AddKeyTx(t, KEY_PURPOSE_CLAIM))
    /\ UNCHANGED <<env, req, gasOverrides, receipt, identityAddress, preflight>>
    /\ UNCHANGED pureVars
    /\ UNCHANGED chain

\* await tx2.wait(); configureAndTransferIdentity returns and createIdentity
\* returns identityAddress
ConfigureWait2(t) ==
    /\ pc[t] = "cf_wait2"
    /\ \/ WaitRejects(t, "addKey", KEY_PURPOSE_CLAIM)
       \/ /\ hist' = [hist EXCEPT ![t] = Append(@, ConfirmEvent("addKey", KEY_PURPOSE_CLAIM))]
          /\ Return(t, identityAddress[t])
    /\ UNCHANGED <<env, req, gasOverrides, receipt, identityAddress, preflight>>
    /\ UNCHANGED pureVars
    /\ UNCHANGED chain

\* --------------------------------------------------------------------------
\* submitClaim
\* --------------------------------------------------------------------------

\* the addClaim transaction, signed by the user's wallet
AddClaimTx(t) ==
    Event("submit", "addClaim", req[t].identityAddress, KeyHash(req[t].claimDetails.issuer), 0,
          gasOverrides[t].read, gasOverrides[t].gasLimit, AddressOf(req[t].userWallet))

\* submitClaim(identityAddress, userWallet, claimDetails) of handleKyc.js is
\* called: checkEnvVariables, then the isClaimValid view call is awaited
SubmitClaimCall(t) ==
    /\ pc[t] = "idle"
    /\ \E i \in Identities, w \in UserKeys, c \in ClaimInputs :
         req' = [req EXCEPT ![t] = [NoRequest EXCEPT !.op = "submitClaim", !.impl = "kyc",
                                                     !.identityAddress = i, !.userWallet = w,
                                                     !.claimDetails = c]]
    /\ IF EnvMissing THEN Throw(t, EnvError) ELSE Goto(t, "sc_isClaimValid")
    /\ UNCHANGED <<env, gasOverrides, receipt, identityAddress, preflight, hist>>
    /\ UNCHANGED pureVars
    /\ UNCHANGED chain

\* await checkIsClaimValid(...): the call rejects, or the contract answers
\* whether the claim is valid; the answer is logged and dropped, and the fee
\* data of addClaim is awaited
SubmitClaimCheckValid(t) ==
    /\ pc[t] = "sc_isClaimValid"
    /\ \/ /\ Throw(t, "call revert exception")
          /\ UNCHANGED preflight
       \/ \E claimIssuer \in BOOLEAN :
            /\ preflight' = [preflight EXCEPT
                                ![t] = [ran |-> TRUE, ok |-> claimIssuer, recovered |-> ""]]
            /\ Goto(t, "sc_getFeeData")
    /\ UNCHANGED <<env, req, gasOverrides, receipt, identityAddress, hist>>
    /\ UNCHANGED pureVars
    /\ UNCHANGED chain

\* const gasOverrides = await getGasOverrides(provider);
\* gasOverrides.gasLimit = 500000
SubmitClaimGas(t) ==
    /\ AwaitGasOverrides(t, "sc_getFeeData", "sc_sendTx", ADD_CLAIM_GAS_LIMIT)
    /\ UNCHANGED <<env, req, receipt, identityAddress, preflight>>
    /\ UNCHANGED pureVars
    /\ UNCHANGED chain

\* const tx = await identityContract.addClaim(..., gasOverrides)
SubmitClaimSend(t) ==
    /\ AwaitSend(t, "sc_sendTx", "sc_wait", AddClaimTx(t))
    /\ UNCHANGED <<env, req, gasOverrides, receipt, identityAddress, preflight>>
    /\ UNCHANGED pureVars
    /\ UNCHANGED chain

\* const receipt = await tx.wait(): the wait rejects, or the receipt arrives;
\* its status is only logged and submitClaim returns undefined
SubmitClaimWait(t) ==
    /\ pc[t] = "sc_wait"
    /\ \/ /\ WaitRejects(t, "addClaim", 0)
          /\ UNCHANGED receipt
       \/ \E status \in ReceiptStatuses :
            /\ hist' = [hist EXCEPT ![t] = Append(@, ConfirmEvent("addClaim", 0))]
            /\ receipt' = [receipt EXCEPT
                              ![t] = [arrived |-> TRUE, logs |-> <<>>, status |-> status]]
            /\ Return(t, "undefined")
    /\ UNCHANGED <<env, req, gasOverrides, identityAddress, preflight>>
    /\ UNCHANGED pureVars
    /\ UNCHANGED chain

\* submitClaim of handleKycV6.js is called: checkEnvVariables, the packed hash
\* is computed and the getRecoveredAddress view call is awaited
SubmitClaimV6Call(t) ==
    /\ pc[t] = "idle"
    /\ \E i \in Identities, w \in UserKeys, c \in ClaimInputs :
         req' = [req EXCEPT ![t] = [NoRequest EXCEPT !.op = "submitClaim", !.impl = "v6",
                                                     !.identityAddress = i, !.userWallet = w,
                                                     !.claimDetails = c]]
    /\ IF EnvMissing THEN Throw(t, EnvError) ELSE Goto(t, "s6_getRecoveredAddress")
    /\ UNCHANGED <<env, gasOverrides, receipt, identityAddress, preflight, hist>>
    /\ UNCHANGED pureVars
    /\ UNCHANGED chain

\* const recoveredAddress = await identityContract.getRecoveredAddress(...):
\* when the call rejects or the address is not the issuer, the error is caught
\* and submitClaim returns; otherwise the fee data of addClaim is awaited
SubmitClaimV6Preflight(t) ==
    /\ pc[t] = "s6_getRecoveredAddress"
    /\ \/ /\ Return(t, "undefined")
          /\ UNCHANGED preflight
       \/ LET recoveredAddress == PreflightRecovered(req[t].identityAddress, req[t].claimDetails)
              matches          == recoveredAddress = req[t].claimDetails.issuer
          IN  /\ preflight' = [preflight EXCEPT
                                  ![t] = [ran |-> TRUE, ok |-> matches,
                                          recovered |-> recoveredAddress]]
              /\ IF matches THEN Goto(t, "s6_getFeeData") ELSE Return(t, "undefined")
    /\ UNCHANGED <<env, req, gasOverrides, receipt, identityAddress, hist>>
    /\ UNCHANGED pureVars
    /\ UNCHANGED chain

\* const gasOverrides = await getGasOverrides(provider)
SubmitClaimV6Gas(t) ==
    /\ AwaitGasOverrides(t, "s6_getFeeData", "s6_sendTx", 0)
    /\ UNCHANGED <<env, req, receipt, identityAddress, preflight>>
    /\ UNCHANGED pureVars
    /\ UNCHANGED chain

\* const tx = await identityContract.addClaim(..., gasOverrides)
SubmitClaimV6Send(t) ==
    /\ AwaitSend(t, "s6_sendTx", "s6_wait", AddClaimTx(t))
    /\ UNCHANGED <<env, req, gasOverrides, receipt, identityAddress, preflight>>
    /\ UNCHANGED pureVars
    /\ UNCHANGED chain

\* await tx.wait(): the receipt is dropped and submitClaim returns undefined
SubmitClaimV6Wait(t) ==
    /\ pc[t] = "s6_wait"
    /\ \/ /\ WaitRejects(t, "addClaim", 0)
          /\ UNCHANGED receipt
       \/ \E status \in ReceiptStatuses :
            /\ hist' = [hist EXCEPT ![t] = Append(@, ConfirmEvent("addClaim", 0))]
            /\ receipt' = [receipt EXCEPT
                              ![t] = [arrived |-> TRUE, logs |-> <<>>, status |-> status]]
            /\ Return(t, "undefined")
    /\ UNCHANGED <<env, req, gasOverrides, identityAddress, preflight>>
    /\ UNCHANGED pureVars
    /\ UNCHANGED chain

\* --------------------------------------------------------------------------
\* addToIdentityRegistry and mintTokens
\* --------------------------------------------------------------------------

\* addToIdentityRegistry(userAddress, identityAddress, countryCode) is called:
\* the wallet is built from ADMIN_PRIVATE_KEY (which throws when the key is
\* missing) and the fee data of registerIdentity is awaited
AddToIdentityRegistryEnter(t, route, userAddress, onchainID, countryCode) ==
    /\ req' = [req EXCEPT ![t] = [NoRequest EXCEPT !.op = "addToIdentityRegistry",
                                                    !.route = route, !.impl = "kyc",
                                                    !.userAddress = userAddress,
                                                    !.identityAddress = onchainID,
                                                    !.countryCode = countryCode]]
    /\ IF env.ADMIN_PRIVATE_KEY = "" THEN Throw(t, "invalid private key")
                                     ELSE Goto(t, "rg_getFeeData")

AddToIdentityRegistryCall(t) ==
    /\ pc[t] = "idle"
    /\ \E u \in Users, i \in Identities, c \in CountryCodes :
         AddToIdentityRegistryEnter(t, "", u, i, c)
    /\ UNCHANGED <<env, gasOverrides, receipt, identityAddress, preflight, hist>>
    /\ UNCHANGED pureVars
    /\ UNCHANGED chain

\* const gasOverrides = await getGasOverrides(provider)
AddToIdentityRegistryGas(t) ==
    /\ AwaitGasOverrides(t, "rg_getFeeData", "rg_sendTx", 0)
    /\ UNCHANGED <<env, req, receipt, identityAddress, preflight>>
    /\ UNCHANGED pureVars
    /\ UNCHANGED chain

\* const tx = await idRegistry.registerIdentity(userAddress, identityAddress,
\*     countryCode, gasOverrides)
AddToIdentityRegistrySend(t) ==
    /\ AwaitSend(t, "rg_sendTx", "rg_wait",
                 [Event("submit", "registerIdentity", IDENTITY_REGISTRY,
                        KeyHash(req[t].userAddress), 0,
                        gasOverrides[t].read, gasOverrides[t].gasLimit, adminWallet)
                    EXCEPT !.args = <<req[t].userAddress, req[t].identityAddress,
                                      req[t].countryCode>>])
    /\ UNCHANGED <<env, req, gasOverrides, receipt, identityAddress, preflight>>
    /\ UNCHANGED pureVars
    /\ UNCHANGED chain

\* await tx.wait(); return true
AddToIdentityRegistryWait(t) ==
    /\ pc[t] = "rg_wait"
    /\ \/ WaitRejects(t, "registerIdentity", 0)
       \/ /\ hist' = [hist EXCEPT ![t] = Append(@, ConfirmEvent("registerIdentity", 0))]
          /\ Return(t, "true")
    /\ UNCHANGED <<env, req, gasOverrides, receipt, identityAddress, preflight>>
    /\ UNCHANGED pureVars
    /\ UNCHANGED chain

\* mintTokens(to, amount, tokenAddress) is called: checkEnvVariables, then
\* tokenContract.mint(to, amount) is called with no overrides. req keeps the
\* tokenAddress the caller passed; the console.log of line 15 assigns the
\* constant address to the parameter before the contract object is built
MintTokensEnter(t, route, to, tokenAddress) ==
    /\ req' = [req EXCEPT ![t] = [NoRequest EXCEPT !.op = "mintTokens", !.route = route,
                                                    !.impl = "kyc", !.userAddress = to,
                                                    !.tokenAddress = tokenAddress]]
    /\ IF EnvMissing THEN Throw(t, EnvError) ELSE Goto(t, "mt_sendTx")

MintTokensCall(t) ==
    /\ pc[t] = "idle"
    /\ \E u \in Users, token \in Tokens : MintTokensEnter(t, "", u, token)
    /\ UNCHANGED <<env, gasOverrides, receipt, identityAddress, preflight, hist>>
    /\ UNCHANGED pureVars
    /\ UNCHANGED chain

\* const tx = await tokenContract.mint(to, amount), tokenContract being at the
\* address the parameter holds by then
MintTokensSend(t) ==
    /\ AwaitSend(t, "mt_sendTx", "mt_wait",
                 Event("submit", "mint", TOKEN_ADDRESS, KeyHash(req[t].userAddress), 0,
                       0, 0, adminWallet))
    /\ UNCHANGED <<env, req, gasOverrides, receipt, identityAddress, preflight>>
    /\ UNCHANGED pureVars
    /\ UNCHANGED chain

\* await tx.wait(); return tx.hash
MintTokensWait(t) ==
    /\ pc[t] = "mt_wait"
    /\ \/ WaitRejects(t, "mint", 0)
       \/ /\ hist' = [hist EXCEPT ![t] = Append(@, ConfirmEvent("mint", 0))]
          /\ Return(t, TxHash)
    /\ UNCHANGED <<env, req, gasOverrides, receipt, identityAddress, preflight>>
    /\ UNCHANGED pureVars
    /\ UNCHANGED chain

\* --------------------------------------------------------------------------
\* Claim issuance as a call
\* --------------------------------------------------------------------------

InvalidUserAddress == "Invalid user address provided."

InvalidOnchainId == "Invalid onchain ID address provided."

IssuerKeyMissing == "Issuer private key (ADMIN_PRIVATE_KEY) not found in .env"

\* new ethers.Wallet(undefined)
InvalidPrivateKey == "invalid private key"

\* AbiCoder.encode given a string that is no address for an "address"
InvalidAddressArgument == "invalid address"

\* the issuer's key has signed the hash of a claim for the identity
SignEvent(onchainID, key) ==
    Event("sign", "claim", onchainID, KeyHash(""), 0, 0, 0, AddressOf(key))

\* generateClaimSignature with step 6 of issueKycClaimSignature in force: the
\* identity is registered (whitelistAddress) as part of the issuance
GenerateClaimSignatureEnterRegistering(t, route, userAddress, onchainID) ==
    LET r == [NoRequest EXCEPT !.op = "generateClaimSignature", !.route = route,
                               !.impl = "kyc", !.userAddress = userAddress,
                               !.identityAddress = onchainID]
        failure == IF ~IsAddress(userAddress) THEN InvalidUserAddress
                   ELSE IF ~IsAddress(onchainID) THEN InvalidOnchainId
                   ELSE IF env.ADMIN_PRIVATE_KEY = "" THEN IssuerKeyMissing
                   ELSE ""
        registerTx == [Event("submit", "registerIdentity", IDENTITY_REGISTRY,
                             KeyHash(userAddress), 0, 0, 0, adminWallet)
                         EXCEPT !.args = <<userAddress, onchainID, 91>>]
    IN  IF failure # ""
        THEN /\ req' = [req EXCEPT ![t] = r]
             /\ Throw(t, failure)
             /\ UNCHANGED hist
        ELSE /\ req' = [req EXCEPT ![t] = [r EXCEPT !.claimDetails =
                           GenerateClaimSignature(env.ADMIN_PRIVATE_KEY, onchainID, 42)]]
             /\ hist' = [hist EXCEPT ![t] = @ \o <<SignEvent(onchainID, env.ADMIN_PRIVATE_KEY),
                                                    registerTx,
                                                    ConfirmEvent("registerIdentity", 0)>>]
             /\ Return(t, "claimDetails")

\* generateClaimSignature(userAddress, identityAddress) of handleKyc.js and the
\* issueKycClaimSignature it awaits: the two addresses are validated, the
\* issuer key is looked up, the hash is signed and the claim returned
GenerateClaimSignatureEnter(t, route, userAddress, onchainID) ==
    LET r == [NoRequest EXCEPT !.op = "generateClaimSignature", !.route = route,
                               !.impl = "kyc", !.userAddress = userAddress,
                               !.identityAddress = onchainID]
        failure == IF ~IsAddress(userAddress) THEN InvalidUserAddress
                   ELSE IF ~IsAddress(onchainID) THEN InvalidOnchainId
                   ELSE IF env.ADMIN_PRIVATE_KEY = "" THEN IssuerKeyMissing
                   ELSE ""
    IN  IF failure # ""
        THEN /\ req' = [req EXCEPT ![t] = r]
             /\ Throw(t, failure)
             /\ UNCHANGED hist
        ELSE /\ req' = [req EXCEPT ![t] = [r EXCEPT !.claimDetails =
                           GenerateClaimSignature(env.ADMIN_PRIVATE_KEY, onchainID, 42)]]
             /\ hist' = [hist EXCEPT ![t] = Append(@, SignEvent(onchainID, env.ADMIN_PRIVATE_KEY))]
             /\ Return(t, "claimDetails")

GenerateClaimSignatureCall(t) ==
    /\ pc[t] = "idle"
    /\ \E u \in Users \cup {MALFORMED_ADDRESS}, i \in Identities \cup {MALFORMED_ADDRESS} :
         GenerateClaimSignatureEnter(t, "", u, i)
    /\ UNCHANGED <<env, gasOverrides, receipt, identityAddress, preflight>>
    /\ UNCHANGED pureVars
    /\ UNCHANGED chain

\* generateClaimSignature(identityAddress) of handleKycV6.js: the issuer wallet
\* is built first, then the claim is encoded (which rejects a string that is no
\* address), hashed and signed
GenerateClaimSignatureV6Call(t) ==
    /\ pc[t] = "idle"
    /\ \E i \in Identities \cup {MALFORMED_ADDRESS} :
         LET r == [NoRequest EXCEPT !.op = "generateClaimSignature", !.impl = "v6",
                                    !.identityAddress = i]
             failure == IF env.ADMIN_PRIVATE_KEY = "" THEN InvalidPrivateKey
                        ELSE IF ~IsAddress(i) THEN InvalidAddressArgument
                        ELSE ""
         IN  IF failure # ""
             THEN /\ req' = [req EXCEPT ![t] = r]
                  /\ Throw(t, failure)
                  /\ UNCHANGED hist
             ELSE /\ req' = [req EXCEPT ![t] = [r EXCEPT !.claimDetails =
                                GenerateClaimSignatureV6(env.ADMIN_PRIVATE_KEY, i, 42, KYC)]]
                  /\ hist' = [hist EXCEPT ![t] = Append(@, SignEvent(i, env.ADMIN_PRIVATE_KEY))]
                  /\ Return(t, "claimDetails")
    /\ UNCHANGED <<env, gasOverrides, receipt, identityAddress, preflight>>
    /\ UNCHANGED pureVars
    /\ UNCHANGED chain

\* --------------------------------------------------------------------------
\* The HTTP routes
\* --------------------------------------------------------------------------

\* the handler answers 400: a required field of the body is missing
Rejected(t, route, userAddress, onchainID, countryCode, msg) ==
    /\ req' = [req EXCEPT ![t] = [NoRequest EXCEPT !.route = route,
                                                   !.userAddress = userAddress,
                                                   !.identityAddress = onchainID,
                                                   !.countryCode = countryCode]]
    /\ Reject(t, msg)

\* POST /deploy {userAddress}
PostDeploy(t) ==
    /\ pc[t] = "idle"
    /\ \E u \in Users \cup {""} :
         IF u = ""
         THEN Rejected(t, "/deploy", u, "", 0, "userAddress is required in the request body.")
         ELSE CreateIdentityEnter(t, "/deploy", "kyc", u)
    /\ UNCHANGED <<env, gasOverrides, receipt, identityAddress, preflight, hist>>
    /\ UNCHANGED pureVars
    /\ UNCHANGED chain

\* POST /signature {userAddress, identityAddress}
PostSignature(t) ==
    /\ pc[t] = "idle"
    /\ \E u \in Users \cup {"", MALFORMED_ADDRESS},
          i \in Identities \cup {"", MALFORMED_ADDRESS} :
         IF u = "" \/ i = ""
         THEN /\ Rejected(t, "/signature", u, i, 0,
                          "userAddress, identityAddress, and countryCode are required.")
              /\ UNCHANGED hist
         ELSE GenerateClaimSignatureEnter(t, "/signature", u, i)
    /\ UNCHANGED <<env, gasOverrides, receipt, identityAddress, preflight>>
    /\ UNCHANGED pureVars
    /\ UNCHANGED chain

\* POST /register {userAddress, identityAddress, countryCode}
PostRegister(t) ==
    /\ pc[t] = "idle"
    /\ \E u \in Users \cup {""}, i \in Identities, c \in CountryCodes \cup {0} :
         IF u = "" \/ c = 0
         THEN Rejected(t, "/register", u, i, c,
                       "userAddress, identityAddress, and countryCode are required.")
         ELSE AddToIdentityRegistryEnter(t, "/register", u, i, c)
    /\ UNCHANGED <<env, gasOverrides, receipt, identityAddress, preflight, hist>>
    /\ UNCHANGED pureVars
    /\ UNCHANGED chain

\* POST /invest {to, amount, tokenAddress}
PostInvest(t) ==
    /\ pc[t] = "idle"
    /\ \E to \in Users \cup {""}, token \in Tokens :
         IF to = ""
         THEN Rejected(t, "/invest", to, "", 0, "to, amount, and tokenAddress are required.")
         ELSE MintTokensEnter(t, "/invest", to, token)
    /\ UNCHANGED <<env, gasOverrides, receipt, identityAddress, preflight, hist>>
    /\ UNCHANGED pureVars
    /\ UNCHANGED chain

\* the error field of a route's 500 answer
RouteError(route) ==
    CASE route = "/deploy"    -> "Failed to deploy identity proxy."
      [] route = "/signature" -> "Failed to register identity."
      [] route = "/register"  -> "Failed to register identity."
      [] route = "/invest"    -> "Failed to mint tokens."
      [] route = "/identity"  -> "Failed to get identity for user."
      [] route = "/status"    -> "Failed to get identity status."
      [] OTHER                -> ""

NoResponse == [status |-> 0, error |-> "", details |-> "", body |-> ""]

\* what the route handler of a settled task answers: 400 for a body it
\* rejected, 500 with the error's message as details when the operation threw,
\* and the operation's result otherwise (201 for /deploy, 200 elsewhere)
Response(t) ==
    IF req[t].route = "" \/ pc[t] # "done" THEN NoResponse
    ELSE CASE outcome[t].status = "rejected" ->
                [NoResponse EXCEPT !.status = 400, !.error = outcome[t].value]
           [] outcome[t].status = "threw" ->
                [NoResponse EXCEPT !.status = 500, !.error = RouteError(req[t].route),
                                   !.details = outcome[t].value]
           [] OTHER ->
                [NoResponse EXCEPT !.status = IF req[t].route = "/deploy" THEN 201 ELSE 200,
                                   !.body = outcome[t].value]

\* --------------------------------------------------------------------------
\* The reads: getIdentityForUser and identityStatus
\* --------------------------------------------------------------------------

CallFailed == "call revert exception"

\* a view call of a contract is on its way
CallEvent(kind, to) == Event("call", kind, to, KeyHash(""), 0, 0, 0, "")

\* the answer to a view call, with the number of writes the chain had seen
ReplyEvent(kind, to) ==
    [Event("reply", kind, to, KeyHash(""), 0, 0, 0, "") EXCEPT !.args = <<chain.writes>>]

\* at most one other request is in progress
AtMostOneBusy == Cardinality({t \in Tasks : pc[t] # "idle"}) <= 1

\* getIdentityForUser(userAddress) of handleKyc.js is called, by GET /identity
\* or directly: idFactory.getIdentity(userAddress) is awaited
GetIdentityForUserCall(t) ==
    /\ pc[t] = "idle"
    /\ AtMostOneBusy
    /\ \E u \in Users, route \in {"", "/identity"} :
         req' = [req EXCEPT ![t] = [NoRequest EXCEPT !.op = "getIdentityForUser",
                                                     !.route = route, !.impl = "kyc",
                                                     !.userAddress = u]]
    /\ hist' = [hist EXCEPT ![t] = Append(@, CallEvent("getIdentity", ID_FACTORY))]
    /\ Goto(t, "gi_call")
    /\ UNCHANGED <<env, gasOverrides, receipt, identityAddress, preflight>>
    /\ UNCHANGED pureVars
    /\ UNCHANGED chain

\* the read fails and its error is returned as if it were the answer
GetIdentityForUserReplySwallow(t) ==
    /\ pc[t] = "gi_call"
    /\ \/ /\ hist' = [hist EXCEPT ![t] = Append(@, FailEvent("getIdentity", 0, CallFailed))]
          /\ Return(t, ZERO_ADDRESS)
       \/ /\ env.RPC_URL # ""
          /\ hist' = [hist EXCEPT ![t] = Append(@, ReplyEvent("getIdentity", ID_FACTORY))]
          /\ Return(t, chain.linked[req[t].userAddress])
    /\ UNCHANGED <<env, req, gasOverrides, receipt, identityAddress, preflight>>
    /\ UNCHANGED pureVars
    /\ UNCHANGED chain

\* the call rejects (it always does without an RPC endpoint) and the error is
\* rethrown, or the factory answers with the identity linked to the wallet
GetIdentityForUserReply(t) ==
    /\ pc[t] = "gi_call"
    /\ \/ /\ hist' = [hist EXCEPT ![t] = Append(@, FailEvent("getIdentity", 0, CallFailed))]
          /\ Throw(t, CallFailed)
       \/ /\ env.RPC_URL # ""
          /\ hist' = [hist EXCEPT ![t] = Append(@, ReplyEvent("getIdentity", ID_FACTORY))]
          /\ Return(t, chain.linked[req[t].userAddress])
    /\ UNCHANGED <<env, req, gasOverrides, receipt, identityAddress, preflight>>
    /\ UNCHANGED pureVars
    /\ UNCHANGED chain

\* identityStatus(userAddress) is called, by GET /status or directly:
\* checkEnvVariables, then identityRegistry.isVerified(userAddress) is awaited
IdentityStatusCall(t) ==
    /\ pc[t] = "idle"
    /\ AtMostOneBusy
    /\ \E u \in Users, route \in {"", "/status"} :
         req' = [req EXCEPT ![t] = [NoRequest EXCEPT !.op = "identityStatus",
                                                     !.route = route, !.impl = "legacy",
                                                     !.userAddress = u]]
    /\ IF EnvMissing
       THEN Throw(t, EnvError) /\ UNCHANGED hist
       ELSE /\ hist' = [hist EXCEPT ![t] = Append(@, CallEvent("isVerified", IDENTITY_REGISTRY))]
            /\ Goto(t, "is_call")
    /\ UNCHANGED <<env, gasOverrides, receipt, identityAddress, preflight>>
    /\ UNCHANGED pureVars
    /\ UNCHANGED chain

\* the call rejects and the error is rethrown, or the registry answers
IdentityStatusReply(t) ==
    /\ pc[t] = "is_call"
    /\ \/ /\ hist' = [hist EXCEPT ![t] = Append(@, FailEvent("isVerified", 0, CallFailed))]
          /\ Throw(t, CallFailed)
       \/ /\ hist' = [hist EXCEPT ![t] = Append(@, ReplyEvent("isVerified", IDENTITY_REGISTRY))]
          /\ Return(t, IF chain.verified[req[t].userAddress] THEN "true" ELSE "false")
    /\ UNCHANGED <<env, req, gasOverrides, receipt, identityAddress, preflight>>
    /\ UNCHANGED pureVars
    /\ UNCHANGED chain

\* a transaction is confirmed that links a wallet to another identity
\* (createIdentity) or changes the registry's verdict on a wallet
\* (registerIdentity, addClaim), sent by this server or by anyone else
ChainWrite ==
    /\ chain.writes < MaxWrites
    /\ \E u \in Users :
         \/ \E i \in (Identities \cup {ZERO_ADDRESS}) \ {chain.linked[u]} :
              chain' = [chain EXCEPT !.linked[u] = i, !.writes = @ + 1]
         \/ chain' = [chain EXCEPT !.verified[u] = ~@, !.writes = @ + 1]
    /\ UNCHANGED <<env, pc, req, gasOverrides, receipt, identityAddress, preflight,
                   outcome, hist>>
    /\ UNCHANGED pureVars

\* --------------------------------------------------------------------------
\* The legacy deployment: identityProxy and deployIdentityProxy
\* --------------------------------------------------------------------------

\* deployments followed in a run of the legacy path
MaxProxies == 3

\* the address of the n-th contract the admin wallet deploys: a contract
\* creation yields a new address each time (it depends on the sender's nonce)
ProxyAddress(n) ==
    CASE n = 1 -> "0xP1"
      [] n = 2 -> "0xP2"
      [] n = 3 -> "0xP3"
      [] n = 4 -> "0xP4"
      [] OTHER -> "0xPn"

\* the replies of provider.getGasPrice() the deployments are run against
LegacyGasPrices == {Big(30000, 0), Big(75000, 1)}

DeployLabels == {"dp_getGasPrice", "dp_deploy", "dp_deployed"}

\* identityProxy(userAddress) is called (POST /deploy of server.js):
\* deployIdentityProxy runs checkEnvVariables, then waits for the gas price.
\* Nothing is looked up about the user beforehand
IdentityProxyCall(t) ==
    /\ pc[t] = "idle"
    /\ Len(chain.proxies) + Cardinality({u \in Tasks : pc[u] \in DeployLabels}) < MaxProxies
    /\ \E u \in Users :
         req' = [req EXCEPT ![t] = [NoRequest EXCEPT !.op = "deployIdentityProxy",
                                                     !.impl = "legacy", !.userAddress = u]]
    /\ IF EnvMissing THEN Throw(t, EnvError) ELSE Goto(t, "dp_getGasPrice")
    /\ UNCHANGED <<env, gasOverrides, receipt, identityAddress, preflight, hist>>
    /\ UNCHANGED pureVars
    /\ UNCHANGED chain

\* const gasPrice = await provider.getGasPrice(); the overrides are built
IdentityProxyGasPrice(t) ==
    /\ pc[t] = "dp_getGasPrice"
    /\ \/ /\ Throw(t, "could not detect network")
          /\ UNCHANGED <<gasOverrides, hist>>
       \/ \E g \in LegacyGasPrices :
            /\ hist' = [hist EXCEPT ![t] =
                          Append(@, Event("read", "complete", "", KeyHash(""), 0, 1, 0, ""))]
            /\ gasOverrides' = [gasOverrides EXCEPT
                                   ![t] = [q |-> LegacyOverrides(g), read |-> 1, gasLimit |-> 0]]
            /\ Goto(t, "dp_deploy")
    /\ UNCHANGED <<env, req, receipt, identityAddress, preflight>>
    /\ UNCHANGED pureVars
    /\ UNCHANGED chain

\* const identity = await factory.deploy(IMPLEMENTATION_AUTHORITY, userAddress,
\*     overrides)
IdentityProxyDeploy(t) ==
    /\ AwaitSend(t, "dp_deploy", "dp_deployed",
                 Event("submit", "deploy", "", KeyHash(req[t].userAddress),
                       KEY_PURPOSE_MANAGEMENT, gasOverrides[t].read, 0, adminWallet))
    /\ UNCHANGED <<env, req, gasOverrides, receipt, identityAddress, preflight>>
    /\ UNCHANGED pureVars
    /\ UNCHANGED chain

\* await identity.deployed(); return identity, whose address identityProxy
\* returns: the creation is mined, a new proxy exists for the user
IdentityProxyDeployed(t) ==
    /\ pc[t] = "dp_deployed"
    /\ \/ /\ WaitRejects(t, "deploy", KEY_PURPOSE_MANAGEMENT)
          /\ UNCHANGED chain
       \/ /\ hist' = [hist EXCEPT ![t] = Append(@, ConfirmEvent("deploy", KEY_PURPOSE_MANAGEMENT))]
          /\ chain' = [chain EXCEPT !.proxies = Append(@, req[t].userAddress)]
          /\ Return(t, ProxyAddress(Len(chain.proxies) + 1))
    /\ UNCHANGED <<env, req, gasOverrides, receipt, identityAddress, preflight>>
    /\ UNCHANGED pureVars

\* the promise has settled and the caller has its result: the task's frame is
\* gone and the slot is free for the next call
Finish(t) ==
    /\ pc[t] = "done"
    /\ pc' = [pc EXCEPT ![t] = "idle"]
    /\ req' = [req EXCEPT ![t] = NoRequest]
    /\ gasOverrides' = [gasOverrides EXCEPT ![t] = NoGas]
    /\ receipt' = [receipt EXCEPT ![t] = NoReceipt]
    /\ identityAddress' = [identityAddress EXCEPT ![t] = ""]
    /\ preflight' = [preflight EXCEPT ![t] = NoPreflight]
    /\ outcome' = [outcome EXCEPT ![t] = Running]
    /\ hist' = [hist EXCEPT ![t] = <<>>]
    /\ UNCHANGED env
    /\ UNCHANGED pureVars
    /\ UNCHANGED chain

ChainIdle == chain = NoChain

TasksIdle ==
    /\ pc = [t \in Tasks |-> "idle"]
    /\ req = [t \in Tasks |-> NoRequest]
    /\ gasOverrides = [t \in Tasks |-> NoGas]
    /\ receipt = [t \in Tasks |-> NoReceipt]
    /\ identityAddress = [t \in Tasks |-> ""]
    /\ preflight = [t \in Tasks |-> NoPreflight]
    /\ outcome = [t \in Tasks |-> Running]
    /\ hist = [t \in Tasks |-> <<>>]

FeeIdle ==
    /\ feeData = [maxFeePerGas |-> FeeNull, maxPriorityFeePerGas |-> FeeNull]
    /\ feeResult = Pending
    /\ gasPrice = Big(0, 0)
    /\ legacyResult = Pending

NoClaimIn == [key |-> "", impl |-> "", identityAddress |-> "", topic |-> 0, claimData |-> <<>>]

ClaimIdle ==
    /\ claimIn = NoClaimIn
    /\ claimOut = NoClaim
    /\ claimRecovered = ""

CallGetGasOverrides ==
    /\ feeResult = Pending
    /\ feeResult' = GetGasOverrides(feeData)
    /\ UNCHANGED <<feeData, gasPrice, legacyResult>>
    /\ UNCHANGED claimVars
    /\ UNCHANGED taskVars
    /\ UNCHANGED chain

CallLegacyOverrides ==
    /\ legacyResult = Pending
    /\ legacyResult' = [err |-> "", q |-> LegacyOverrides(gasPrice)]
    /\ UNCHANGED <<feeData, gasPrice, feeResult>>
    /\ UNCHANGED claimVars
    /\ UNCHANGED taskVars
    /\ UNCHANGED chain

NextFee == CallGetGasOverrides \/ CallLegacyOverrides

\* the fee estimator on its own, over every snapshot of FeeSnapshots
InitFeeSpec ==
    /\ feeData \in FeeSnapshots
    /\ feeResult = Pending
    /\ gasPrice \in FeeAmounts
    /\ legacyResult = Pending
    /\ env = [ADMIN_PRIVATE_KEY |-> "kAdmin", RPC_URL |-> "https://rpc"]
    /\ TasksIdle
    /\ ClaimIdle
    /\ ChainIdle

SpecFee == InitFeeSpec /\ [][NextFee]_vars

\* ---- the claim round trip on its own: issue, then the pre-flight check ----

\* topics and payloads (as code points) claims are issued for
Topics == {1, 42, 300}

Payloads == {<<>>, KYC, <<75, 233>>}

InitClaimSpec ==
    /\ claimIn \in [key : IssuerKeys, impl : {"kyc", "v6"}, identityAddress : Identities,
                     topic : Topics, claimData : Payloads]
    /\ claimOut = NoClaim
    /\ claimRecovered = ""
    /\ env \in [ADMIN_PRIVATE_KEY : IssuerKeys, RPC_URL : {"https://rpc"}]
    /\ env.ADMIN_PRIVATE_KEY = claimIn.key
    /\ TasksIdle
    /\ FeeIdle
    /\ ChainIdle

\* generateClaimSignature returns its claim: the wrapper of handleKyc.js (which
\* always signs the payload "KYC") or generateClaimSignature of handleKycV6.js
IssueClaim ==
    /\ claimOut = NoClaim
    /\ claimOut' = IF claimIn.impl = "kyc"
                   THEN GenerateClaimSignature(env.ADMIN_PRIVATE_KEY, claimIn.identityAddress,
                                               claimIn.topic)
                   ELSE GenerateClaimSignatureV6(env.ADMIN_PRIVATE_KEY, claimIn.identityAddress,
                                                 claimIn.topic, claimIn.claimData)
    /\ UNCHANGED <<claimIn, claimRecovered>>
    /\ UNCHANGED feeVars
    /\ UNCHANGED taskVars
    /\ UNCHANGED chain

\* the pre-flight check of submitClaim recomputes the hash and recovers the signer
VerifyClaim ==
    /\ claimOut # NoClaim
    /\ claimRecovered = ""
    /\ claimRecovered' = PreflightRecovered(claimIn.identityAddress, claimOut)
    /\ UNCHANGED <<claimIn, claimOut>>
    /\ UNCHANGED feeVars
    /\ UNCHANGED taskVars
    /\ UNCHANGED chain

NextClaim == IssueClaim \/ VerifyClaim

SpecClaim == InitClaimSpec /\ [][NextClaim]_vars

\* --------------------------------------------------------------------------
\* The specifications
\* --------------------------------------------------------------------------

\* no other call is in progress
Quiet == \A t \in Tasks : pc[t] = "idle"

Step(t) ==
    \/ CreateIdentityGas(t)
    \/ CreateIdentitySend(t)
    \/ CreateIdentityReceipt(t)
    \/ ConfigureGas1(t)
    \/ ConfigureSend1(t)
    \/ ConfigureWait1(t)
    \/ ConfigureGas2(t)
    \/ ConfigureSend2(t)
    \/ ConfigureWait2(t)
    \/ SubmitClaimCheckValid(t)
    \/ SubmitClaimGas(t)
    \/ SubmitClaimSend(t)
    \/ SubmitClaimWait(t)
    \/ SubmitClaimV6Preflight(t)
    \/ SubmitClaimV6Gas(t)
    \/ SubmitClaimV6Send(t)
    \/ SubmitClaimV6Wait(t)
    \/ AddToIdentityRegistryGas(t)
    \/ AddToIdentityRegistrySend(t)
    \/ AddToIdentityRegistryWait(t)
    \/ MintTokensSend(t)
    \/ MintTokensWait(t)
    \/ Finish(t)

Call(t) ==
    \/ CreateIdentityCall(t)
    \/ SubmitClaimCall(t)
    \/ SubmitClaimV6Call(t)
    \/ AddToIdentityRegistryCall(t)
    \/ MintTokensCall(t)
    \/ GenerateClaimSignatureCall(t)
    \/ GenerateClaimSignatureV6Call(t)
    \/ PostDeploy(t)
    \/ PostSignature(t)
    \/ PostRegister(t)
    \/ PostInvest(t)

\* calls arrive one at a time
Next == \E t \in Tasks : (Quiet /\ Call(t)) \/ Step(t)

\* the configuration is read from the environment once, at start
Init ==
    /\ env \in [ADMIN_PRIVATE_KEY : {""} \cup IssuerKeys, RPC_URL : {"", "https://rpc"}]
    /\ TasksIdle
    /\ FeeIdle
    /\ ClaimIdle
    /\ ChainIdle

Spec == Init /\ [][Next]_vars

\* ---- the task flows with the scheduling the runtime guarantees ----

\* the steps that resolve an await of tx.wait(): they happen when the chain
\* confirms or reverts the transaction. tx.wait() is called with no timeout
\* argument, so nothing in the process makes them happen
WaitStep(t) ==
    \/ CreateIdentityReceipt(t)
    \/ ConfigureWait1(t)
    \/ ConfigureWait2(t)
    \/ SubmitClaimWait(t)
    \/ SubmitClaimV6Wait(t)
    \/ AddToIdentityRegistryWait(t)
    \/ MintTokensWait(t)

\* the steps that follow a JSON-RPC request (a fee read, a view call, the
\* sending of a transaction) and the delivery of a settled result: the
\* request is answered or fails, and the event loop runs the continuation
RpcStep(t) ==
    \/ CreateIdentityGas(t)
    \/ CreateIdentitySend(t)
    \/ ConfigureGas1(t)
    \/ ConfigureSend1(t)
    \/ ConfigureGas2(t)
    \/ ConfigureSend2(t)
    \/ SubmitClaimCheckValid(t)
    \/ SubmitClaimGas(t)
    \/ SubmitClaimSend(t)
    \/ SubmitClaimV6Preflight(t)
    \/ SubmitClaimV6Gas(t)
    \/ SubmitClaimV6Send(t)
    \/ AddToIdentityRegistryGas(t)
    \/ AddToIdentityRegistrySend(t)
    \/ MintTokensSend(t)
    \/ Finish(t)

\* every request gets its answer and every continuation is run; the chain
\* owes no confirmation
Fairness == \A t \in Tasks : WF_vars(RpcStep(t))

SpecLive == Init /\ [][Next]_vars /\ Fairness

\* the same with a chain that confirms or reverts every transaction it took
ChainFairness == \A t \in Tasks : WF_vars(WaitStep(t))

SpecLiveChain == SpecLive /\ ChainFairness

\* ---- the legacy server: deployments requested one after another or together ----

InitLegacy ==
    /\ env \in [ADMIN_PRIVATE_KEY : {""} \cup IssuerKeys, RPC_URL : {"", "https://rpc"}]
    /\ TasksIdle
    /\ FeeIdle
    /\ ClaimIdle
    /\ ChainIdle

LegacyStep(t) ==
    \/ IdentityProxyCall(t)
    \/ IdentityProxyGasPrice(t)
    \/ IdentityProxyDeploy(t)
    \/ IdentityProxyDeployed(t)
    \/ Finish(t)

NextLegacy == \E t \in Tasks : LegacyStep(t)

SpecLegacy == InitLegacy /\ [][NextLegacy]_vars

\* ---- the routes of the server under concurrent requests ----

\* at most this many logs in a creation receipt while requests run concurrently
MaxConcLogs == 1

\* the server is configured and no request has arrived
InitConc ==
    /\ env = [ADMIN_PRIVATE_KEY |-> "kAdmin", RPC_URL |-> "https://rpc"]
    /\ TasksIdle
    /\ FeeIdle
    /\ ClaimIdle
    /\ ChainIdle

\* a request arrives on one of the three write routes, whatever the other
\* requests are doing (Express starts a handler per request and each handler
\* runs up to its next await), or a handler in flight takes its next step
ConcStep(t) ==
    \/ PostDeploy(t)
    \/ PostRegister(t)
    \/ PostInvest(t)
    \/ CreateIdentityGas(t)
    \/ CreateIdentitySend(t)
    \/ CreateIdentityReceipt(t) /\ Len(receipt'[t].logs) <= MaxConcLogs
    \/ ConfigureGas1(t)
    \/ ConfigureSend1(t)
    \/ ConfigureWait1(t)
    \/ ConfigureGas2(t)
    \/ ConfigureSend2(t)
    \/ ConfigureWait2(t)
    \/ AddToIdentityRegistryGas(t)
    \/ AddToIdentityRegistrySend(t)
    \/ AddToIdentityRegistryWait(t)
    \/ MintTokensSend(t)
    \/ MintTokensWait(t)
    \/ Finish(t)

NextConc == \E t \in Tasks : ConcStep(t)

SpecConc == InitConc /\ [][NextConc]_vars

\* ---- the reads on their own, up to two at a time, against a chain that
\* other transactions change ----

InitReadSpec ==
    /\ env \in [ADMIN_PRIVATE_KEY : {"", "kAdmin"}, RPC_URL : {"", "https://rpc"}]
    /\ TasksIdle
    /\ FeeIdle
    /\ ClaimIdle
    /\ ChainIdle

ReadStep(t) ==
    \/ GetIdentityForUserCall(t)
    \/ GetIdentityForUserReply(t)
    \/ IdentityStatusCall(t)
    \/ IdentityStatusReply(t)
    \/ Finish(t)

NextRead == ChainWrite \/ \E t \in Tasks : ReadStep(t)

SpecRead == InitReadSpec /\ [][NextRead]_vars

\* --------------------------------------------------------------------------
\* Properties
\* --------------------------------------------------------------------------

BigLe(a, b) == ~BigLt(b, a)

WellFormed(b) == b.lo \in 0..(Limb - 1)

IsPrefix(a, b) == Len(a) <= Len(b) /\ \A i \in 1..Len(a) : a[i] = b[i]

CreateTasks == {t \in Tasks : req[t].op = "createIdentity"}

\* the transactions of a task's history: what was sent and what was confirmed
TxEvents(h) == SelectSeq(h, LAMBDA e : e.ev \in {"submit", "confirm"})

Shape(e) == <<e.ev, e.kind, e.purpose>>

Shapes(h) == [i \in 1..Len(h) |-> Shape(h[i])]

\* the order of a provisioning flow
ProvisionOrder ==
    << <<"submit", "createIdentityWithManagementKeys", KEY_PURPOSE_MANAGEMENT>>,
       <<"confirm", "createIdentityWithManagementKeys", KEY_PURPOSE_MANAGEMENT>>,
       <<"submit", "addKey", KEY_PURPOSE_MANAGEMENT>>,
       <<"confirm", "addKey", KEY_PURPOSE_MANAGEMENT>>,
       <<"submit", "addKey", KEY_PURPOSE_CLAIM>>,
       <<"confirm", "addKey", KEY_PURPOSE_CLAIM>> >>

\* the interface createIdentity decodes the receipt's logs with
InterfaceOf(t) == IF req[t].impl = "v6" THEN REGISTRY_EVENTS ELSE FACTORY_EVENTS

\* some log of the receipt decodes to a WalletLinked event
HasWalletLinked(t) ==
    \E i \in 1..Len(receipt[t].logs) :
        receipt[t].logs[i].event = "WalletLinked" /\ "WalletLinked" \in InterfaceOf(t)

\* C1: the claim generateClaimSignature returns verifies: the address the
\* pre-flight check recovers from the claim's signature over the hash it
\* recomputes is the claim's issuer.
C1_RoundTrip == claimRecovered # "" => claimRecovered = claimOut.issuer

\* C2: submitClaim sends no addClaim transaction once its pre-flight check has
\* reported that the claim is not valid.
C2_NoSubmitAfterMismatch ==
    \A t \in Tasks :
        (req[t].op = "submitClaim" /\ preflight[t].ran /\ ~preflight[t].ok)
            => Submits(hist[t]) = <<>>

\* C3: when no log of the creation receipt decodes to WalletLinked,
\* createIdentity has thrown the event-not-found error, has made no further
\* fee read, has sent no addKey transaction and holds no identity address.
C3_NoEventNoFurtherSteps ==
    \A t \in CreateTasks :
        (receipt[t].arrived /\ ~HasWalletLinked(t))
            => /\ pc[t] = "done"
               /\ outcome[t] = [status |-> "threw", value |-> EventNotFound]
               /\ identityAddress[t] = ""
               /\ Shapes(TxEvents(hist[t])) = SubSeq(ProvisionOrder, 1, 2)
               /\ hist[t][Len(hist[t])].ev = "confirm"

C3_Witness ==
    \E t \in CreateTasks :
        /\ req[t].impl = "kyc"
        /\ receipt[t].arrived
        /\ Len(receipt[t].logs) = 2
        /\ ~HasWalletLinked(t)
        /\ outcome[t].status = "threw"

\* C4: the transactions of a provisioning flow are sent and confirmed in the
\* order creation, MANAGEMENT addKey, CLAIM_SIGNER addKey, each confirmed before
\* the next is sent; the identity address is held only once the creation
\* receipt has arrived, the addKey transactions go to it, and the flow returns
\* only with all three confirmed.
C4_StrictlySequential ==
    \A t \in CreateTasks :
        LET h == TxEvents(hist[t])
        IN  /\ IsPrefix(Shapes(h), ProvisionOrder)
            /\ identityAddress[t] # "" => (receipt[t].arrived /\ Len(h) >= 2)
            /\ Len(h) >= 3 => (identityAddress[t] # "" /\ h[3].to = identityAddress[t])
            /\ outcome[t].status = "returned" => Len(h) = 6

C4_Witness ==
    \E t \in CreateTasks :
        /\ outcome[t].status = "returned"
        /\ Shapes(TxEvents(hist[t])) = ProvisionOrder

\* C5: for every snapshot whose priority fee is reported and below the floor
\* (0 included), getGasOverrides returns a quote whose maxPriorityFeePerGas is
\* 35200000000.
C5_FloorQuote ==
    (/\ feeResult # Pending
     /\ Truthy(feeData.maxFeePerGas)
     /\ feeData.maxPriorityFeePerGas.present
     /\ BigLt(feeData.maxPriorityFeePerGas.v, amoyMinPriorityFee))
        => /\ feeResult.err = ""
           /\ feeResult.q.maxPriorityFeePerGas = Big(35200, 0)

\* C6: for every snapshot with a max fee M and a priority fee P at or above
\* the floor, getGasOverrides returns maxPriorityFeePerGas = x with
\* 100 * x <= 110 * P < 100 * (x + 1), that is (P * 110) div 100, and
\* maxFeePerGas with maxFeePerGas - x = M - P.
C6_ExactBuffer ==
    (/\ feeResult # Pending
     /\ Truthy(feeData.maxFeePerGas)
     /\ feeData.maxPriorityFeePerGas.present
     /\ ~BigLt(feeData.maxPriorityFeePerGas.v, amoyMinPriorityFee))
        => LET P == feeData.maxPriorityFeePerGas.v
               M == feeData.maxFeePerGas.v
               x == feeResult.q.maxPriorityFeePerGas
           IN  /\ feeResult.err = ""
               /\ WellFormed(x)
               /\ WellFormed(feeResult.q.maxFeePerGas)
               /\ BigLe(BigMul(x, 100), BigMul(P, 110))
               /\ BigLt(BigMul(P, 110), BigMul(BigAdd(x, Big(0, 1)), 100))
               /\ BigSub(feeResult.q.maxFeePerGas, x) = BigSub(M, P)

\* a quote for a priority fee above the floor whose buffer does not divide evenly
C6_Witness ==
    /\ feeResult.err = ""
    /\ feeData.maxPriorityFeePerGas.v = Big(32000, 1)
    /\ feeResult.q.maxPriorityFeePerGas = Big(35200, 1)
    /\ feeData.maxFeePerGas.v = Big(75000, 7)

C8_NoFeeDataNoTransaction ==
    \A t \in Tasks :
        \A i \in 1..Len(hist[t]) :
            (hist[t][i].ev = "read" /\ hist[t][i].kind = "incomplete")
                => /\ i = Len(hist[t])
                   /\ pc[t] = "done"
                   /\ outcome[t] = [status |-> "threw", value |-> FeeError]
                   /\ gasOverrides[t].read # hist[t][i].read

\* the fee data of the MANAGEMENT addKey is missing, after a confirmed creation
C8_Witness ==
    \E t \in CreateTasks :
        /\ Len(hist[t]) = 4
        /\ hist[t][3].ev = "confirm"
        /\ hist[t][4].ev = "read"
        /\ hist[t][4].kind = "incomplete"
        /\ outcome[t].status = "threw"

\* C9: every transaction sent carries a quote, the quote comes of a fee-data
\* read the task made after its previous transaction was confirmed, and no two
\* transactions carry the quote of the same read.
C9_FreshQuotePerTransaction ==
    \A t \in Tasks :
        \A i \in 1..Len(hist[t]) :
            hist[t][i].ev = "submit"
                => /\ hist[t][i].read # 0
                   /\ \E j \in 1..(i - 1) :
                         /\ hist[t][j].ev = "read"
                         /\ hist[t][j].kind = "complete"
                         /\ hist[t][j].read = hist[t][i].read
                         /\ \A k \in 1..(i - 1) :
                               hist[t][k].ev = "submit"
                                   => \E c \in (k + 1)..(j - 1) : hist[t][c].ev = "confirm"
                   /\ \A k \in 1..(i - 1) :
                         hist[t][k].ev = "submit" => hist[t][k].read # hist[t][i].read

\* C10: a failed step of a provisioning flow is the last thing the flow does:
\* createIdentity has thrown that step's error, nothing is sent after it, and
\* everything the flow ever sent is its creation or one of its two addKey
\* transactions (nothing undoes a confirmed step).
C10_FailureAborts ==
    \A t \in CreateTasks :
        /\ \A i \in 1..Len(hist[t]) :
              hist[t][i].ev = "fail"
                  => /\ i = Len(hist[t])
                     /\ pc[t] = "done"
                     /\ outcome[t] = [status |-> "threw", value |-> hist[t][i].err]
        /\ IsPrefix(Shapes(Submits(hist[t])),
                    << ProvisionOrder[1], ProvisionOrder[3], ProvisionOrder[5] >>)
        /\ outcome[t].status = "threw" => Len(Confirms(hist[t])) < 3

\* the CLAIM_SIGNER addKey fails after the MANAGEMENT addKey was confirmed
C10_Witness ==
    \E t \in CreateTasks :
        /\ outcome[t] = [status |-> "threw", value |-> TxFailed]
        /\ Len(Confirms(hist[t])) = 2
        /\ hist[t][Len(hist[t])].ev = "fail"
        /\ hist[t][Len(hist[t])].purpose = KEY_PURPOSE_CLAIM


\* the first log of the receipt carrying a WalletLinked event, or 0
FirstLinkedLog(logs) ==
    LET hits == {i \in 1..Len(logs) : logs[i].event = "WalletLinked"}
    IN  IF hits = {} THEN 0 ELSE CHOOSE i \in hits : \A j \in hits : i <= j

\* C11: createIdentity returns only with the creation, the MANAGEMENT addKey
\* and the CLAIM_SIGNER addKey confirmed in that order; what it returns is the
\* identity of the first WalletLinked log of the creation receipt, and both
\* addKey transactions went to that address with the key hash of the
\* requesting user's address.
C11_ReturnsConfiguredIdentity ==
    \A t \in CreateTasks :
        outcome[t].status = "returned"
            => LET h == TxEvents(hist[t])
                   w == FirstLinkedLog(receipt[t].logs)
               IN  /\ Shapes(h) = ProvisionOrder
                   /\ w # 0
                   /\ outcome[t].value = receipt[t].logs[w].identity
                   /\ \A i \in {3, 5} :
                         /\ h[i].to = outcome[t].value
                         /\ h[i].key = KeyHash(req[t].userAddress)

\* a returned flow whose receipt carries another log before the WalletLinked one
C11_Witness ==
    \E t \in CreateTasks :
        /\ outcome[t].status = "returned"
        /\ FirstLinkedLog(receipt[t].logs) = 2
        /\ outcome[t].value = receipt[t].logs[2].identity
        /\ Len(Confirms(hist[t])) = 3

\* C12: once the creation receipt has arrived, the identity address
\* createIdentity holds is the one of the first log of the receipt, in receipt
\* order, that is a WalletLinked event (other logs being skipped), and none
\* when the receipt has no such log; in handleKyc.js and in handleKycV6.js.
C12_FirstWalletLinkedLog ==
    \A t \in CreateTasks :
        receipt[t].arrived
            => LET w == FirstLinkedLog(receipt[t].logs)
               IN  identityAddress[t] = IF w = 0 THEN "" ELSE receipt[t].logs[w].identity

\* the keys an identity holds by the confirmed transactions of a flow: those
\* given at creation and those added since (the flow sends no removeKey)
IdentityKeys(h) ==
    {<<h[i].key, h[i].purpose>> :
        i \in {j \in 1..(Len(h) - 1) :
                  /\ h[j].ev = "submit"
                  /\ h[j].kind \in {"createIdentityWithManagementKeys", "addKey"}
                  /\ h[j + 1].ev = "confirm"}}

\* C13: when createIdentity has returned (configureAndTransferIdentity has
\* completed), the user's key holds MANAGEMENT and CLAIM_SIGNER on the identity
\* and the admin's key is no longer a MANAGEMENT key of it.
C13_ControlTransferred ==
    \A t \in CreateTasks :
        outcome[t].status = "returned"
            => /\ <<KeyHash(req[t].userAddress), KEY_PURPOSE_MANAGEMENT>> \in IdentityKeys(hist[t])
               /\ <<KeyHash(req[t].userAddress), KEY_PURPOSE_CLAIM>> \in IdentityKeys(hist[t])
               /\ <<KeyHash(ADMIN_ADDRESS), KEY_PURPOSE_MANAGEMENT>> \notin IdentityKeys(hist[t])

IssueTasks == {t \in Tasks : req[t].op = "generateClaimSignature"}

\* an address of the issuance request is no address
BadIssueAddress(t) ==
    \/ req[t].impl = "kyc" /\ req[t].userAddress \in {"", MALFORMED_ADDRESS}
    \/ req[t].identityAddress \in {"", MALFORMED_ADDRESS}

Signed(h) == \E i \in 1..Len(h) : h[i].ev = "sign"

InvalidAddressErrors == {InvalidUserAddress, InvalidOnchainId, InvalidAddressArgument}

\* C14 as stated: an issuance called with a malformed user or identity address
\* throws an invalid-address error, has signed nothing and returns no claim, in
\* handleKyc.js and in handleKycV6.js.
C14_RejectsMalformedAddress ==
    \A t \in IssueTasks :
        BadIssueAddress(t)
            => /\ outcome[t].status = "threw"
               /\ outcome[t].value \in InvalidAddressErrors
               /\ ~Signed(hist[t])
               /\ req[t].claimDetails = NoClaim

\* C14 as amended: such an issuance throws, has signed nothing and returns no
\* claim; the error is an invalid-address error, except that
\* generateClaimSignature of handleKycV6.js called without an issuer key throws
\* the error of the missing key.
C14_RejectsMalformedBeforeSigning ==
    \A t \in IssueTasks :
        BadIssueAddress(t)
            => /\ outcome[t].status = "threw"
               /\ ~Signed(hist[t])
               /\ req[t].claimDetails = NoClaim
               /\ IF req[t].impl = "v6" /\ env.ADMIN_PRIVATE_KEY = ""
                  THEN outcome[t].value = InvalidPrivateKey
                  ELSE outcome[t].value \in InvalidAddressErrors

\* generateClaimSignature of handleKycV6.js, issuer key present, refuses a
\* malformed identity address
C14_Witness ==
    \E t \in IssueTasks :
        /\ req[t].impl = "v6"
        /\ req[t].identityAddress = MALFORMED_ADDRESS
        /\ env.ADMIN_PRIVATE_KEY # ""
        /\ outcome[t] = [status |-> "threw", value |-> InvalidAddressArgument]

\* C15: an operation in which a step failed (a transaction or a read was
\* rejected, or the pre-flight check of submitClaim found the claim invalid)
\* ends by throwing.
C15_NoFailureSwallowed ==
    \A t \in Tasks :
        (/\ pc[t] = "done"
         /\ outcome[t].status # "rejected"
         /\ \/ \E i \in 1..Len(hist[t]) : hist[t][i].ev = "fail"
            \/ preflight[t].ran /\ ~preflight[t].ok)
            => outcome[t].status = "threw"

\* C16: once the receipt of addClaim has arrived, submitClaim returns without
\* throwing and its result tells a reverted transaction (status other than 1)
\* from an added claim.
C16_StatusReported ==
    \A t \in Tasks :
        (req[t].op = "submitClaim" /\ receipt[t].arrived)
            => /\ outcome[t].status = "returned"
               /\ (outcome[t].value = "TransactionReverted") <=> (receipt[t].status # 1)

\* C17: every addClaim transaction is signed by the user's wallet and carries
\* the quote of a fee read of the task together with the gas limit 500000.
C17_AddClaimOverrides ==
    \A t \in Tasks :
        \A i \in 1..Len(hist[t]) :
            (hist[t][i].ev = "submit" /\ hist[t][i].kind = "addClaim")
                => /\ hist[t][i].signer = AddressOf(req[t].userWallet)
                   /\ hist[t][i].read # 0
                   /\ hist[t][i].read = Reads(SubSeq(hist[t], 1, i))
                   /\ hist[t][i].gasLimit = ADD_CLAIM_GAS_LIMIT

\* C18: a registration that returned has had its registerIdentity transaction
\* confirmed, the transaction carried the request's userAddress,
\* identityAddress and countryCode, and what is returned (and answered by
\* POST /register as transactionHash) is the hash of that transaction.
C18_RegisterReturnsHash ==
    \A t \in Tasks :
        (req[t].op = "addToIdentityRegistry" /\ outcome[t].status = "returned")
            => /\ Len(Confirms(hist[t])) = 1
               /\ Len(Submits(hist[t])) = 1
               /\ Submits(hist[t])[1].args
                     = <<req[t].userAddress, req[t].identityAddress, req[t].countryCode>>
               /\ outcome[t].value = TxHash
               /\ req[t].route = "/register" => Response(t).body = TxHash

ReadTasks == {t \in Tasks : req[t].op \in {"getIdentityForUser", "identityStatus"}}

Calls(h) == SelectSeq(h, LAMBDA e : e.ev = "call")

\* the write count a returned read was answered at
AnsweredAt(t) == hist[t][Len(hist[t])].args[1]

\* a read has been answered
Answered(t) == t \in ReadTasks /\ outcome[t].status = "returned"

\* what the chain holds now for the address a read asked about
ChainValue(t) ==
    IF req[t].op = "getIdentityForUser" THEN chain.linked[req[t].userAddress]
    ELSE IF chain.verified[req[t].userAddress] THEN "true" ELSE "false"

\* a read settles in this step
ReadSettles(t) == pc[t] \in {"gi_call", "is_call"} /\ pc'[t] = "done"

\* C19: a read sends no transaction and makes at most one contract call (one
\* exactly when it was answered or failed); a failed call ends the read by
\* throwing the call's error; two answered reads of the same kind for the same
\* address with no write between them have the same result, which is what
\* the chain holds while no write follows; and the step that settles a read
\* leaves the chain as it was.
C19_ReadOnlyIdempotent ==
    /\ [](\A t \in ReadTasks :
            /\ Submits(hist[t]) = <<>>
            /\ Len(Calls(hist[t])) <= 1
            /\ Len(hist[t]) <= 2
            /\ \A i \in 1..Len(hist[t]) :
                  hist[t][i].ev = "fail"
                      => /\ i = Len(hist[t])
                         /\ outcome[t] = [status |-> "threw", value |-> hist[t][i].err]
            /\ Answered(t)
                  => /\ Len(Calls(hist[t])) = 1
                     /\ hist[t][Len(hist[t])].ev = "reply"
                     /\ AnsweredAt(t) = chain.writes => outcome[t].value = ChainValue(t)
                     /\ \A u \in ReadTasks :
                           (/\ Answered(u)
                            /\ req[u].op = req[t].op
                            /\ req[u].userAddress = req[t].userAddress
                            /\ AnsweredAt(u) = AnsweredAt(t))
                               => outcome[u].value = outcome[t].value)
    /\ [][\A t \in Tasks : ReadSettles(t) => chain' = chain]_vars

\* two reads of the identity of the same wallet answered with no write between
\* them, after the chain had been written to
C19_Witness ==
    \E t, u \in ReadTasks :
        /\ t # u
        /\ Answered(t) /\ Answered(u)
        /\ req[t].op = "getIdentityForUser" /\ req[u].op = "getIdentityForUser"
        /\ req[t].userAddress = req[u].userAddress
        /\ AnsweredAt(t) = 1 /\ AnsweredAt(u) = 1
        /\ outcome[t].value # ZERO_ADDRESS

\* the body of a routed request lacks a required field or carries a string
\* that is no address
ValidationError(t) ==
    \/ req[t].userAddress \in {"", MALFORMED_ADDRESS}
    \/ req[t].route \in {"/signature", "/register"}
          /\ req[t].identityAddress \in {"", MALFORMED_ADDRESS}
    \/ req[t].route = "/register" /\ req[t].countryCode = 0

\* C20: a routed request with a validation error is answered 400 and no
\* transaction was sent for it; any other request whose operation threw is
\* answered 500 with an error message and the error's message as details.
C20_ValidationIs400 ==
    \A t \in Tasks :
        (req[t].route # "" /\ pc[t] = "done")
            => /\ ValidationError(t)
                  => (Response(t).status = 400 /\ Submits(hist[t]) = <<>>)
               /\ (~ValidationError(t) /\ outcome[t].status = "threw")
                  => /\ Response(t).status = 500
                     /\ Response(t).error # ""
                     /\ Response(t).details = outcome[t].value


\* a bigint that is zero or positive
BigNonNegative(b) == WellFormed(b) /\ b.hi >= 0

\* C24: for every snapshot with a positive max fee and a positive priority fee
\* for which getGasOverrides returns a quote, maxFeePerGas and
\* maxPriorityFeePerGas of the quote are both non-negative integers, the
\* snapshots whose max fee is below their priority fee included.
C24_QuoteNonNegative ==
    (/\ feeResult # Pending
     /\ feeResult.err = ""
     /\ BigLt(Big(0, 0), feeData.maxFeePerGas.v)
     /\ BigLt(Big(0, 0), feeData.maxPriorityFeePerGas.v))
        => /\ BigNonNegative(feeResult.q.maxFeePerGas)
           /\ BigNonNegative(feeResult.q.maxPriorityFeePerGas)

\* a quote for a snapshot whose max fee of 1 wei is far below its priority
\* fee of 75 gwei: the estimated base fee is negative, the quoted max fee is not
C24_Witness ==
    /\ feeResult # Pending
    /\ feeResult.err = ""
    /\ feeData.maxFeePerGas.v = Big(0, 1)
    /\ feeData.maxPriorityFeePerGas.v = Big(75000, 0)
    /\ feeResult.q.maxFeePerGas = Big(7500, 1)
    /\ feeResult.q.maxPriorityFeePerGas = Big(82500, 0)

\* the hash over which generateClaimSignature produced the signature of a claim
\* for an identity: keccak256 of the ABI encoding of (identity, topic, bytes)
IssuerDataHash(onchainID, claimDetails) ==
    Keccak256(AbiEncode(onchainID, claimDetails.topic, GetBytes(claimDetails.data)))

\* C26: the hash submitClaim passes to the recovery check is the keccak hash of
\* the ABI encoding of (identity, topic, payloadBytes), the hash over which
\* generateClaimSignature produced the claim's signature.
C26_VerifierRecomputesSignedHash ==
    claimRecovered # ""
        => /\ claimOut.signature[1].over
                  = HashMessage(IssuerDataHash(claimIn.identityAddress, claimOut))
           /\ PreflightDataHash(claimIn.identityAddress, claimOut)
                  = IssuerDataHash(claimIn.identityAddress, claimOut)

\* C27: the issuer field of every claim generateClaimSignature returns is the
\* address of the private key that produced the claim's signature, whichever
\* key ADMIN_PRIVATE_KEY holds.
C27_IssuerIsSigner ==
    claimOut # NoClaim
        => /\ claimOut.signature[1].by = env.ADMIN_PRIVATE_KEY
           /\ claimOut.issuer = AddressOf(claimOut.signature[1].by)

MintTasks == {t \in Tasks : req[t].op = "mintTokens"}

\* C29: a mintTokens call that has returned sent one mint transaction, to the
\* token contract its request names, saw it confirmed and returned its hash.
C29_MintsOnRequestedToken ==
    \A t \in MintTasks :
        outcome[t].status = "returned"
            => /\ Len(Submits(hist[t])) = 1
               /\ Submits(hist[t])[1].kind = "mint"
               /\ Submits(hist[t])[1].to = req[t].tokenAddress
               /\ Len(Confirms(hist[t])) = 1
               /\ Confirms(hist[t])[1].kind = "mint"
               /\ outcome[t].value = TxHash

WriteOps == {"createIdentity", "submitClaim", "addToIdentityRegistry", "mintTokens"}

\* C30: a write operation called while ADMIN_PRIVATE_KEY or RPC_URL is missing
\* has thrown the missing-configuration error, with no fee read and no
\* transaction submitted.
C30_MissingConfigFailsFirst ==
    \A t \in Tasks :
        (req[t].op \in WriteOps /\ EnvMissing)
            => /\ outcome[t] = [status |-> "threw", value |-> EnvError]
               /\ hist[t] = <<>>

\* the transactions of a history that write to the identity registry
RegistryWrites(h) ==
    SelectSeq(h, LAMBDA e : e.ev = "submit"
                              /\ (e.kind = "registerIdentity" \/ e.to = IDENTITY_REGISTRY))

Outstanding(t) == hist[t] # <<>> /\ hist[t][Len(hist[t])].ev = "submit"

\* C21: writes are serialized per signing credential: at no time do two
\* requests each have a transaction outstanding that was signed with the
\* same key.
C21_OneOutstandingPerSigner ==
    \A t1, t2 \in Tasks :
        (t1 # t2 /\ Outstanding(t1) /\ Outstanding(t2))
            => hist[t1][Len(hist[t1])].signer # hist[t2][Len(hist[t2])].signer

\* C28: at every point of a createIdentity call, whatever the other calls are
\* doing, the identity address it holds is the one of the WalletLinked log of
\* its own creation receipt, its addKey transactions went to that address with
\* the key hash of its own user, and what it returns is that address.
C28_OwnReceiptOnly ==
    \A t \in CreateTasks :
        LET w == FirstLinkedLog(receipt[t].logs)
        IN  /\ identityAddress[t] # ""
                  => (w # 0 /\ identityAddress[t] = receipt[t].logs[w].identity)
            /\ \A i \in 1..Len(hist[t]) :
                  (hist[t][i].ev = "submit" /\ hist[t][i].kind = "addKey")
                      => /\ w # 0
                         /\ hist[t][i].to = receipt[t].logs[w].identity
                         /\ hist[t][i].key = KeyHash(req[t].userAddress)
            /\ outcome[t].status = "returned"
                  => (w # 0 /\ outcome[t].value = receipt[t].logs[w].identity)

\* two provisioning requests in flight at once, for different users, each
\* between the addKey transactions of its own identity: one is waiting for
\* its first addKey, the other has its second one outstanding
C28_Witness ==
    \E a, b \in CreateTasks :
        /\ pc[a] = "cf_wait1"
        /\ pc[b] = "cf_wait2"
        /\ req[a].userAddress # req[b].userAddress
        /\ identityAddress[a] # identityAddress[b]
        /\ hist[a][Len(hist[a])].to = identityAddress[a]
        /\ hist[b][Len(hist[b])].to = identityAddress[b]

\* C22: after any sequence of provisioning requests, repeated or concurrent
\* ones for the same user included, no two identity contracts exist for the
\* same user address.
C22_OneIdentityPerUser ==
    \A i, j \in 1..Len(chain.proxies) :
        chain.proxies[i] = chain.proxies[j] => i = j

\* C23: every operation that waits for a confirmation terminates: a task with
\* a transaction outstanding eventually ends, by returning or by throwing,
\* also when the chain never confirms the transaction.
C23_WaitTerminates == \A t \in Tasks : Outstanding(t) ~> (pc[t] = "done")

====
